---- MODULE Spec2Model ----
(***************************************************************************)
(* State-machine model of the three game controllers of                    *)
(* logic-game-challenge: the piece-taking (Nim-like) game in its 7-6-2 and  *)
(* 4-3-2 revisions, the Mod-M card game and the 6x6 Othello variant.        *)
(* Every React component is modelled by its state hooks (gameState,         *)
(* history) and one action per event handler / effect callback.             *)
(***************************************************************************)
EXTENDS Integers, Sequences, FiniteSets, TLC

VARIABLES
    ptState,      \* PieceTakingGame: gameState
    ptHistory,    \* PieceTakingGame: history
    mmState,      \* ModMGame: gameState
    mmHistory,    \* ModMGame: history
    obBoard,      \* Othello: board handed to findValidMoves
    obColor,      \* Othello: colour handed to findValidMoves
    obMoves,      \* Othello: the Position[] findValidMoves returned
    obCell,       \* Othello: the cell handed to placePiece
    obResult,     \* Othello: the board placePiece returned
    obState,      \* StrangeOthello: gameState
    obHistory,    \* StrangeOthello: history
    aiTimers,     \* every controller: the gameState closed over by each pending
                  \* timer of the AI effect
    lastOp        \* the handler or callback that ran last (for reading traces)

ptVars == <<ptState, ptHistory>>
mmVars == <<mmState, mmHistory>>
obFnVars == <<obBoard, obColor, obMoves, obCell, obResult>>
obCtlVars == <<obState, obHistory>>
obVars == <<obFnVars, obCtlVars>>
vars == <<ptState, ptHistory, mmState, mmHistory, obBoard, obColor, obMoves,
          obCell, obResult, obState, obHistory, aiTimers, lastOp>>

Min(a, b) == IF a < b THEN a ELSE b
Max(a, b) == IF a > b THEN a ELSE b

(***************************************************************************)
(* The AI effect, the same in every controller:                            *)
(*   useEffect(() => {                                                      *)
(*     if (gameState.currentTurn === <AI side> && !gameState.gameOver) {    *)
(*       const aiTimer = setTimeout(() => { ... }, delay)                   *)
(*       return () => clearTimeout(aiTimer)                                 *)
(*     }                                                                    *)
(*   }, [gameState])                                                        *)
(* It runs after the render of every gameState that was set: first the      *)
(* cleanup the effect of the previous gameState returned, then the effect   *)
(* of the new one.  A timer is named by the gameState its callback closed   *)
(* over; a pending timer fires at any later moment.                         *)
(***************************************************************************)

\* The condition under which the effect of gameState calls setTimeout.
AIEffectRuns(gameState, aiSide) ==
    gameState.currentTurn = aiSide /\ ~gameState.gameOver

\* A faulty cleanup: the timer is left pending.
ClearTimeout_Leaves(timers, gameState) == timers

\* clearTimeout(aiTimer) in the cleanup of the effect of gameState.
ClearTimeout(timers, gameState) == timers \ {gameState}

\* The effect of gameState: the timers pending after it ran.
SetTimeout(timers, gameState, aiSide) ==
    IF AIEffectRuns(gameState, aiSide) THEN timers \cup {gameState} ELSE timers

\* The timers pending after newState replaced gameState: the cleanup, where the
\* effect of gameState returned one, then the effect of newState.
AIEffect(timers, gameState, newState, aiSide) ==
    SetTimeout(IF AIEffectRuns(gameState, aiSide)
               THEN ClearTimeout(timers, gameState) ELSE timers,
               newState, aiSide)

\* A step that set newState in place of gameState; the timers in fired ran
\* their callback in it and are no longer pending.
Render(fired, gameState, newState, aiSide) ==
    aiTimers' = AIEffect(aiTimers \ fired, gameState, newState, aiSide)

(***************************************************************************)
(* Piece-taking game (src/src/pages/PieceTakingGame.tsx, 7-6-2) and its     *)
(* 4-3-2 revision (src/unnamed/part_002).                                   *)
(***************************************************************************)

\* JavaScript's ^ on small non-negative integers.
RECURSIVE BitXor(_, _)
BitXor(a, b) ==
    IF a = 0 /\ b = 0 THEN 0
    ELSE (((a % 2) + (b % 2)) % 2) + 2 * BitXor(a \div 2, b \div 2)

Colors == <<"blue", "yellow", "red">>

NoAIMove == [color |-> "none", count |-> 0]

InitialBlue == 7
InitialYellow == 6
InitialRed == 2

InitialBlue432 == 4
InitialYellow432 == 3
InitialRed432 == 2

PtInitialState(b, y, r) ==
    [bluePieces |-> b, yellowPieces |-> y, redPieces |-> r,
     currentTurn |-> "player", selectedColor |-> "blue", selectedCount |-> 1,
     gameOver |-> FALSE, winner |-> "null", lastAIMove |-> NoAIMove]

\* state[`${color}Pieces`]
Pieces(state, color) ==
    CASE color = "blue" -> state.bluePieces
      [] color = "yellow" -> state.yellowPieces
      [] OTHER -> state.redPieces

SetPieces(state, color, n) ==
    CASE color = "blue" -> [state EXCEPT !.bluePieces = n]
      [] color = "yellow" -> [state EXCEPT !.yellowPieces = n]
      [] OTHER -> [state EXCEPT !.redPieces = n]

TotalPieces(state) == state.bluePieces + state.yellowPieces + state.redPieces

NimSum(state) == BitXor(BitXor(state.bluePieces, state.yellowPieces), state.redPieces)

getCountForColor(color) == Pieces(ptState, color)

getMaxSelectableCount == getCountForColor(ptState.selectedColor)

getAvailableColorsFromState(state) ==
    SelectSeq(Colors, LAMBDA c : Pieces(state, c) > 0)

InSeq(x, s) == \E i \in 1..Len(s) : s[i] = x

ColorIndex(color) == CHOOSE i \in 1..3 : Colors[i] = color

\* The loop of selectNextColor / selectPrevColor: the first colour, stepping by
\* step (+1 or -1) around the three colours, that still has pieces.
RECURSIVE FindColor(_, _, _)
FindColor(index, step, i) ==
    IF i >= 3 THEN ptState.selectedColor
    ELSE LET next == ((index - 1 + step + 3) % 3) + 1
         IN  IF getCountForColor(Colors[next]) > 0 THEN Colors[next]
             ELSE FindColor(next, step, i + 1)

\* A faulty push: the new state is saved instead of the current one.
HistoryAfterUpdate_PushesNew(history, state, newState) == Append(history, newState)

\* setHistory(prev => [...prev, gameState]): the current state is saved.
HistoryAfterUpdate(history, state, newState) == Append(history, state)

\* updateGameState as the render of gameState defines it: the gameState of
\* that render is pushed on history and newState is set.
updateGameStateIn(gameState, newState) ==
    /\ ptHistory' = HistoryAfterUpdate(ptHistory, gameState, newState)
    /\ ptState' = newState

\* updateGameState as a handler of the current render calls it.
updateGameState(newState) == updateGameStateIn(ptState, newState)

\* After a move: move the selection to a colour that still has pieces, or clamp
\* the selected count to what the selected colour still holds.
FixSelection(newState) ==
    LET available == getAvailableColorsFromState(newState)
    IN  IF ~InSeq(newState.selectedColor, available)
        THEN [newState EXCEPT
                !.selectedColor = IF Len(available) > 0 THEN available[1] ELSE @,
                !.selectedCount = IF Len(available) > 0 THEN 1 ELSE 0]
        ELSE [newState EXCEPT
                !.selectedCount = Min(@, Pieces(newState, newState.selectedColor))]

\* The control panel is rendered only while the game runs and the player is to move.
PanelShown == ~ptState.gameOver /\ ptState.currentTurn = "player"

selectNextColor ==
    /\ PanelShown
    /\ LET newColor == FindColor(ColorIndex(ptState.selectedColor), 1, 0)
       IN  ptState' = [ptState EXCEPT
                         !.selectedColor = newColor,
                         !.selectedCount = IF getCountForColor(newColor) > 0 THEN 1 ELSE 0]
    /\ UNCHANGED ptHistory
    /\ Render({}, ptState, ptState', "ai")
    /\ lastOp' = "selectNextColor"
    /\ UNCHANGED <<mmVars, obVars>>

selectPrevColor ==
    /\ PanelShown
    /\ LET newColor == FindColor(ColorIndex(ptState.selectedColor), -1, 0)
       IN  ptState' = [ptState EXCEPT
                         !.selectedColor = newColor,
                         !.selectedCount = IF getCountForColor(newColor) > 0 THEN 1 ELSE 0]
    /\ UNCHANGED ptHistory
    /\ Render({}, ptState, ptState', "ai")
    /\ lastOp' = "selectPrevColor"
    /\ UNCHANGED <<mmVars, obVars>>

increaseCount ==
    /\ PanelShown
    /\ ptState.selectedCount < getMaxSelectableCount
    /\ ptState' = [ptState EXCEPT !.selectedCount = @ + 1]
    /\ UNCHANGED ptHistory
    /\ Render({}, ptState, ptState', "ai")
    /\ lastOp' = "increaseCount"
    /\ UNCHANGED <<mmVars, obVars>>

decreaseCount ==
    /\ PanelShown
    /\ ptState.selectedCount > 1
    /\ ptState' = [ptState EXCEPT !.selectedCount = @ - 1]
    /\ UNCHANGED ptHistory
    /\ Render({}, ptState, ptState', "ai")
    /\ lastOp' = "decreaseCount"
    /\ UNCHANGED <<mmVars, obVars>>

\* A faulty removal: one piece too many.
PlayerRemoval_OneMore(pile, count) == Max(pile - count - 1, 0)

\* The removal confirmPlayerMove applies to the selected heap.
PlayerRemoval(pile, count) == Max(pile - count, 0)

PlayerMoveResult(state) ==
    LET taken == [SetPieces(state, state.selectedColor,
                            PlayerRemoval(Pieces(state, state.selectedColor),
                                          state.selectedCount))
                    EXCEPT !.currentTurn = "ai"]
    IN  IF TotalPieces(taken) = 0
        THEN [taken EXCEPT !.gameOver = TRUE, !.winner = "ai"]
        ELSE [FixSelection(taken) EXCEPT !.lastAIMove = NoAIMove]

\* What a call of confirmPlayerMove makes of <<gameState, history>>: the
\* function body has no test of currentTurn or gameOver.
ConfirmPlayerMoveOutcome(state, history) ==
    <<PlayerMoveResult(state),
      HistoryAfterUpdate(history, state, PlayerMoveResult(state))>>

confirmPlayerMove ==
    /\ PanelShown
    /\ updateGameState(PlayerMoveResult(ptState))
    /\ Render({}, ptState, ptState', "ai")
    /\ lastOp' = "confirmPlayerMove"
    /\ UNCHANGED <<mmVars, obVars>>

\* An AI move: take removal pieces from color and record it.
AITake(state, color, removal) ==
    [SetPieces(state, color, Pieces(state, color) - removal) EXCEPT
        !.selectedColor = color,
        !.lastAIMove = [color |-> color, count |-> removal]]

\* A faulty target: always take a single piece.
NimTarget_TakeOne(pile, nimSum) == IF pile > 0 THEN pile - 1 ELSE pile

\* target = pile ^ nimSum
NimTarget(pile, nimSum) == BitXor(pile, nimSum)

\* The Nim strategy loop: the first colour, in the order blue, yellow, red, whose
\* pile can be lowered to pile ^ nimSum; 0 when there is none (moveFound = false).
NimColorIndex(state) ==
    LET nimSum == NimSum(state)
        ok == {i \in 1..3 : NimTarget(Pieces(state, Colors[i]), nimSum) < Pieces(state, Colors[i])}
    IN  IF ok = {} THEN 0 ELSE CHOOSE i \in ok : \A j \in ok : i <= j

NimMove(state) ==
    LET color == Colors[NimColorIndex(state)]
        pile == Pieces(state, color)
    IN  AITake(state, color, pile - NimTarget(pile, NimSum(state)))

\* A faulty fallback: up to three pieces are taken.
RandomMoves_UpToThree(state) ==
    LET available == getAvailableColorsFromState(state)
    IN  IF Len(available) = 0 THEN {state}
        ELSE UNION {{AITake(state, available[i], removal) :
                        removal \in 1..Min(3, Pieces(state, available[i]))} :
                    i \in 1..Len(available)}

\* The random fallback: any colour with pieces, 1 or 2 pieces (at most the pile).
RandomMoves(state) ==
    LET available == getAvailableColorsFromState(state)
    IN  IF Len(available) = 0 THEN {state}
        ELSE UNION {{AITake(state, available[i], removal) :
                        removal \in 1..Min(2, Pieces(state, available[i]))} :
                    i \in 1..Len(available)}

\* 7-6-2: the Nim move when nimSum is not 0 and a pile can be lowered, else random.
AIChoices(state) ==
    IF NimSum(state) # 0 /\ NimColorIndex(state) # 0
    THEN {NimMove(state)}
    ELSE RandomMoves(state)

\* A faulty terminal check: the AI that empties the board is declared the winner.
AIFinish_AIWins(newState) ==
    [(IF TotalPieces(newState) = 0
      THEN [newState EXCEPT !.gameOver = TRUE, !.winner = "ai"]
      ELSE FixSelection(newState))
     EXCEPT !.currentTurn = "player"]

\* After the AI has taken: an empty board ends the game and the player wins.
AIFinish(newState) ==
    [(IF TotalPieces(newState) = 0
      THEN [newState EXCEPT !.gameOver = TRUE, !.winner = "player"]
      ELSE FixSelection(newState))
     EXCEPT !.currentTurn = "player"]

\* The timer callback of the AI effect: a pending timer fires and works on the
\* gameState it closed over.
AIMove ==
    /\ \E gameState \in aiTimers :
          /\ \E s \in AIChoices(gameState) : updateGameStateIn(gameState, AIFinish(s))
          /\ Render({gameState}, ptState, ptState', "ai")
    /\ lastOp' = "AIMove"
    /\ UNCHANGED <<mmVars, obVars>>

\* What the timer callback of the AI effect can make of <<gameState, history>>.
AIMoveOutcomes(state, history) ==
    {<<AIFinish(s), HistoryAfterUpdate(history, state, AIFinish(s))>> :
        s \in AIChoices(state)}

\* What undoLastMove makes of <<gameState, history>>: with fewer than two
\* snapshots nothing; otherwise the last two are popped and the second one popped
\* becomes the state.
UndoLastMoveOutcome(state, history) ==
    IF Len(history) < 2 THEN <<state, history>>
    ELSE <<history[Len(history) - 1], SubSeq(history, 1, Len(history) - 2)>>

\* Pops the AI's snapshot and the player's, and restores the latter.
undoLastMove ==
    /\ PanelShown
    /\ Len(ptHistory) >= 2
    /\ ptState' = UndoLastMoveOutcome(ptState, ptHistory)[1]
    /\ ptHistory' = UndoLastMoveOutcome(ptState, ptHistory)[2]
    /\ Render({}, ptState, ptState', "ai")
    /\ lastOp' = "undoLastMove"
    /\ UNCHANGED <<mmVars, obVars>>

\* ---- 4-3-2 revision (src/unnamed/part_002) ----

\* Special case 1: two colours left and one of them holds a single piece: take
\* the whole other colour.  0 when the case does not apply.
Special1Index(state) ==
    LET available == getAvailableColorsFromState(state)
        ok == {i \in 1..Len(available) : Pieces(state, available[i]) = 1}
    IN  IF Len(available) # 2 \/ ok = {} THEN 0
        ELSE CHOOSE i \in ok : \A j \in ok : i <= j

Special1Move(state) ==
    LET available == getAvailableColorsFromState(state)
        otherColor == available[3 - Special1Index(state)]
        pile == Pieces(state, otherColor)
    IN  [SetPieces(state, otherColor, 0) EXCEPT
            !.selectedColor = otherColor,
            !.lastAIMove = [color |-> otherColor, count |-> pile]]

\* A faulty special case: the whole colour is taken.
LeaveOne_TakesAll(state, color) ==
    [SetPieces(state, color, 0) EXCEPT
        !.selectedColor = color,
        !.lastAIMove = [color |-> color, count |-> Pieces(state, color)]]

\* Special cases 2 and 3: leave exactly one piece in color.
LeaveOne(state, color) ==
    [SetPieces(state, color, 1) EXCEPT
        !.selectedColor = color,
        !.lastAIMove = [color |-> color, count |-> Pieces(state, color) - 1]]

\* Special case 3 left out.
Special3Color_Missing(state) == "none"

\* Special case 3: all three colours left, two of them with one piece, the third
\* with more: the colour to cut down to one, "none" when the case does not apply.
Special3Color(state) ==
    LET blue == state.bluePieces
        yellow == state.yellowPieces
        red == state.redPieces
    IN  IF blue = 1 /\ yellow = 1 /\ red > 1 THEN "red"
        ELSE IF blue = 1 /\ red = 1 /\ yellow > 1 THEN "yellow"
        ELSE IF yellow = 1 /\ red = 1 /\ blue > 1 THEN "blue"
        ELSE "none"

AIChoices432(state) ==
    LET available == getAvailableColorsFromState(state)
    IN  IF Len(available) = 2 /\ Special1Index(state) # 0
        THEN {Special1Move(state)}
        ELSE IF Len(available) = 1 /\ Pieces(state, available[1]) > 1
        THEN {LeaveOne(state, available[1])}
        ELSE IF Len(available) = 3 /\ Special3Color(state) # "none"
        THEN {LeaveOne(state, Special3Color(state))}
        ELSE IF NimSum(state) # 0 /\ NimColorIndex(state) # 0
        THEN {NimMove(state)}
        ELSE RandomMoves(state)

AIMove432 ==
    /\ \E gameState \in aiTimers :
          /\ \E s \in AIChoices432(gameState) : updateGameStateIn(gameState, AIFinish(s))
          /\ Render({gameState}, ptState, ptState', "ai")
    /\ lastOp' = "AIMove432"
    /\ UNCHANGED <<mmVars, obVars>>

\* Clicking a pile selects its colour; the box is there on either side's turn.
selectColorClick ==
    /\ \E color \in {"blue", "yellow", "red"} :
          /\ Pieces(ptState, color) > 0
          /\ ptState' = [ptState EXCEPT !.selectedColor = color, !.selectedCount = 1]
    /\ Render({}, ptState, ptState', "ai")
    /\ lastOp' = "selectColorClick"
    /\ UNCHANGED <<ptHistory, mmVars, obVars>>

selectNextColor432 ==
    /\ Len(getAvailableColorsFromState(ptState)) > 1
    /\ selectNextColor

selectPrevColor432 ==
    /\ Len(getAvailableColorsFromState(ptState)) > 1
    /\ selectPrevColor

(***************************************************************************)
(* Mod-M card game (src/src/pages/ModMGame.tsx, N = 5, M = 9, AI first).    *)
(***************************************************************************)

CardN == 5
ModM == 9

NegInfinity == -1000
PosInfinity == 1000

\* Array.from({ length: n }, (_, i) => i + 1)
InitialCards == [i \in 1..CardN |-> i]

NoLastMove == [by |-> "none", card |-> 0]

\* A faulty initial state: the player moves first.
initializeGame_PlayerFirst ==
    [n |-> CardN, m |-> ModM,
     playerCards |-> InitialCards, aiCards |-> InitialCards,
     playedCards |-> <<>>, playedBy |-> <<>>, sum |-> 0,
     currentTurn |-> "player", gameOver |-> FALSE, winner |-> "null",
     message |-> "playerTurn", lastMove |-> NoLastMove]

initializeGame ==
    [n |-> CardN, m |-> ModM,
     playerCards |-> InitialCards, aiCards |-> InitialCards,
     playedCards |-> <<>>, playedBy |-> <<>>, sum |-> 0,
     currentTurn |-> "ai", gameOver |-> FALSE, winner |-> "null",
     message |-> "aiTurn", lastMove |-> NoLastMove]

\* A faulty filter of the AI's hand: every card passes.
SafeMoves_All(state) == state.aiCards

\* A faulty filter: drops the first card of the hand, whichever card was played.
RemoveCard_First(cards, card) == Tail(cards)

\* cards.filter((c) => c !== card)
RemoveCard(cards, card) == SelectSeq(cards, LAMBDA c : c # card)

\* A faulty update: the running sum is not updated.
NewSum_Stale(sum, card) == sum

\* newState.sum += card
NewSum(sum, card) == sum + card

\* A faulty winner: the side that made the sum a multiple of m wins.
SuddenDeathWinner_Same(player) == player

\* The side that wins when player has made the sum a multiple of m.
SuddenDeathWinner(player) == IF player = "player" THEN "ai" ELSE "player"

\* A faulty turn rule: the side that played moves again.
NextTurn_Same(player) == player

\* The side to move after player when the game goes on.
NextTurn(player) == IF player = "player" THEN "ai" ELSE "player"

\* The other revision's rule: the player wins when both hands are empty.
ExhaustionWinner_Player == "player"

\* The side that wins when both hands are empty (rule 3: the AI).
ExhaustionWinner == "ai"

\* newState as playCard builds it from gameState.
PlayCardResult(state, card, player) ==
    LET played ==
            [state EXCEPT
               !.playerCards = IF player = "player" THEN RemoveCard(@, card) ELSE @,
               !.aiCards = IF player = "player" THEN @ ELSE RemoveCard(@, card),
               !.playedCards = Append(@, card),
               !.playedBy = Append(@, player),
               !.sum = NewSum(@, card),
               !.lastMove = [by |-> player, card |-> card]]
    IN  IF played.sum % played.m = 0
        THEN [played EXCEPT
                !.gameOver = TRUE,
                !.winner = SuddenDeathWinner(player),
                !.message = IF SuddenDeathWinner(player) = "player"
                            THEN "playerWinsMultiple" ELSE "aiWinsMultiple"]
        ELSE IF Len(played.playerCards) = 0 /\ Len(played.aiCards) = 0
        THEN [played EXCEPT
                !.gameOver = TRUE,
                !.winner = ExhaustionWinner,
                !.message = "aiWinsExhausted"]
        ELSE [played EXCEPT
                !.currentTurn = NextTurn(player),
                !.message = IF NextTurn(player) = "player"
                            THEN "playerTurn" ELSE "aiTurn"]

\* playCard as the render of gameState defines it.
playCardIn(gameState, card, player) ==
    /\ mmHistory' = Append(mmHistory, gameState)
    /\ mmState' = PlayCardResult(gameState, card, player)

\* playCard as a handler of the current render calls it.
playCard(card, player) == playCardIn(mmState, card, player)

\* A faulty guard of handleCardSelect: the turn is not looked at.
CardSelectAccepted_AnyTurn(state) == ~state.gameOver

\* The negation of the early return of handleCardSelect.
CardSelectAccepted(state) == ~(state.currentTurn # "player" \/ state.gameOver)

\* A card is submitted: an accepted card is one of the buttons of the player's
\* hand; a rejected call returns without a change.
handleCardSelect ==
    /\ \E card \in 1..CardN :
          IF CardSelectAccepted(mmState)
          THEN /\ \E i \in 1..Len(mmState.playerCards) : mmState.playerCards[i] = card
               /\ playCard(card, "player")
               /\ Render({}, mmState, mmState', "ai")
               /\ lastOp' = "handleCardSelect"
          ELSE /\ UNCHANGED <<mmVars, aiTimers>>
               /\ lastOp' = "handleCardSelectRejected"
    /\ UNCHANGED <<ptVars, obVars>>

\* minimax with alpha-beta pruning.  The result is [score, card]; card = 0 stands
\* for a card drawn at random from the hand of the side to move (or for no card).
RECURSIVE minimax(_, _, _, _, _, _, _)
RECURSIVE MaxLoop(_, _, _, _, _, _, _, _, _)
RECURSIVE MinLoop(_, _, _, _, _, _, _, _, _)

minimax(playerCards, aiCards, sum, isMaximizing, depth, alpha, beta) ==
    IF Len(playerCards) = 0 /\ Len(aiCards) = 0
    THEN [score |-> -1, card |-> 0]
    ELSE IF Len(IF isMaximizing THEN aiCards ELSE playerCards) = 0
    THEN minimax(playerCards, aiCards, sum, ~isMaximizing, depth + 1, alpha, beta)
    ELSE IF isMaximizing
    THEN MaxLoop(playerCards, aiCards, sum, depth, alpha, beta, 1, NegInfinity, 0)
    ELSE MinLoop(playerCards, aiCards, sum, depth, alpha, beta, 1, PosInfinity, 0)

\* for (const card of aiCards), from the i-th card on.
MaxLoop(playerCards, aiCards, sum, depth, alpha, beta, i, maxScore, bestCard) ==
    IF i > Len(aiCards)
    THEN IF bestCard = 0
         THEN [score |-> -10 + depth, card |-> 0]
         ELSE [score |-> maxScore, card |-> bestCard]
    ELSE LET card == aiCards[i]
             newSum == sum + card
         IN  IF newSum % ModM = 0
             THEN MaxLoop(playerCards, aiCards, sum, depth, alpha, beta, i + 1,
                          maxScore, bestCard)
             ELSE LET result == minimax(playerCards, RemoveCard(aiCards, card), newSum,
                                        FALSE, depth + 1, alpha, beta)
                      better == result.score > maxScore
                      newMax == IF better THEN result.score ELSE maxScore
                      newBest == IF better THEN card ELSE bestCard
                      newAlpha == Max(alpha, newMax)
                  IN  IF beta <= newAlpha
                      THEN [score |-> newMax, card |-> newBest]
                      ELSE MaxLoop(playerCards, aiCards, sum, depth, newAlpha, beta,
                                   i + 1, newMax, newBest)

\* for (const card of playerCards), from the i-th card on.
MinLoop(playerCards, aiCards, sum, depth, alpha, beta, i, minScore, bestCard) ==
    IF i > Len(playerCards)
    THEN IF bestCard = 0
         THEN [score |-> 10 - depth, card |-> 0]
         ELSE [score |-> minScore, card |-> bestCard]
    ELSE LET card == playerCards[i]
             newSum == sum + card
         IN  IF newSum % ModM = 0
             THEN MinLoop(playerCards, aiCards, sum, depth, alpha, beta, i + 1,
                          minScore, bestCard)
             ELSE LET result == minimax(RemoveCard(playerCards, card), aiCards, newSum,
                                        TRUE, depth + 1, alpha, beta)
                      better == result.score < minScore
                      newMin == IF better THEN result.score ELSE minScore
                      newBest == IF better THEN card ELSE bestCard
                      newBeta == Min(beta, newMin)
                  IN  IF newBeta <= alpha
                      THEN [score |-> newMin, card |-> newBest]
                      ELSE MinLoop(playerCards, aiCards, sum, depth, alpha, newBeta,
                                   i + 1, newMin, newBest)

SeqToSet(s) == {s[i] : i \in 1..Len(s)}

MaxOf(S) == CHOOSE x \in S : \A y \in S : y <= x

\* The call tree of minimax without the pruning breaks: the longest chain of
\* nested calls below a call with these arguments.
RECURSIVE mmCallDepth(_, _, _, _)
mmCallDepth(playerCards, aiCards, sum, isMaximizing) ==
    LET currentCards == IF isMaximizing THEN aiCards ELSE playerCards
        searched == {i \in 1..Len(currentCards) : (sum + currentCards[i]) % ModM # 0}
    IN  IF Len(playerCards) = 0 /\ Len(aiCards) = 0 THEN 0
        ELSE IF Len(currentCards) = 0
        THEN 1 + mmCallDepth(playerCards, aiCards, sum, ~isMaximizing)
        ELSE IF searched = {} THEN 0
        ELSE 1 + MaxOf({IF isMaximizing
                        THEN mmCallDepth(playerCards, RemoveCard(aiCards, aiCards[i]),
                                         sum + aiCards[i], FALSE)
                        ELSE mmCallDepth(RemoveCard(playerCards, playerCards[i]), aiCards,
                                         sum + playerCards[i], TRUE) : i \in searched})

\* Whether the call tree holds a pass call (empty hand of the side to move)
\* made directly by another pass call; afterPass says that the caller passed.
RECURSIVE mmPassesTwice(_, _, _, _, _)
mmPassesTwice(playerCards, aiCards, sum, isMaximizing, afterPass) ==
    LET currentCards == IF isMaximizing THEN aiCards ELSE playerCards
        searched == {i \in 1..Len(currentCards) : (sum + currentCards[i]) % ModM # 0}
    IN  IF Len(playerCards) = 0 /\ Len(aiCards) = 0 THEN FALSE
        ELSE IF Len(currentCards) = 0
        THEN afterPass \/ mmPassesTwice(playerCards, aiCards, sum, ~isMaximizing, TRUE)
        ELSE \E i \in searched :
                IF isMaximizing
                THEN mmPassesTwice(playerCards, RemoveCard(aiCards, aiCards[i]),
                                   sum + aiCards[i], FALSE, FALSE)
                ELSE mmPassesTwice(RemoveCard(playerCards, playerCards[i]), aiCards,
                                   sum + playerCards[i], TRUE, FALSE)

\* aiCards.filter((card) => (sum + card) % m !== 0)
SafeMoves(state) ==
    SelectSeq(state.aiCards, LAMBDA card : (state.sum + card) % state.m # 0)

\* A faulty choice: any card of the hand, without the filter and the search.
ChosenCards_AnyCard(state) == SeqToSet(state.aiCards)

\* The cards the AI effect may pass to playCard.
ChosenCards(state) ==
    LET safeMoves == SafeMoves(state)
    IN  IF Len(safeMoves) > 0
        THEN LET result == minimax(state.playerCards, safeMoves, state.sum, TRUE, 0,
                                   NegInfinity, PosInfinity)
             IN  IF result.card = 0 THEN SeqToSet(safeMoves) ELSE {result.card}
        ELSE SeqToSet(state.aiCards)

\* The timer callback of the AI effect: a pending timer fires and works on the
\* gameState it closed over.
AIPlay ==
    /\ \E gameState \in aiTimers :
          /\ \E chosenCard \in ChosenCards(gameState) :
                playCardIn(gameState, chosenCard, "ai")
          /\ Render({gameState}, mmState, mmState', "ai")
    /\ lastOp' = "AIPlay"
    /\ UNCHANGED <<ptVars, obVars>>

\* The undo button is enabled whenever history holds two snapshots.
handleUndo ==
    /\ Len(mmHistory) >= 2
    /\ mmState' = mmHistory[Len(mmHistory) - 1]
    /\ mmHistory' = SubSeq(mmHistory, 1, Len(mmHistory) - 2)
    /\ Render({}, mmState, mmState', "ai")
    /\ lastOp' = "handleUndo"
    /\ UNCHANGED <<ptVars, obVars>>

(***************************************************************************)
(* Mod-M card game, earlier revision (src/unnamed/part_003): N = 5, M = 7,  *)
(* the player moves first, the player wins when all cards are played, and   *)
(* there is no history.  The state is held in mmState; mmHistory stays      *)
(* empty.                                                                   *)
(***************************************************************************)

CardN7 == 5
ModM7 == 7

initializeGameM7 ==
    [n |-> CardN7, m |-> ModM7,
     playerCards |-> [i \in 1..CardN7 |-> i], aiCards |-> [i \in 1..CardN7 |-> i],
     playedCards |-> <<>>, sum |-> 0,
     currentTurn |-> "player", gameOver |-> FALSE, winner |-> "null",
     message |-> "playerTurnSelect"]

\* newState as playCard of this revision builds it from gameState.
PlayCardResultM7(state, card, player) ==
    LET played ==
            [state EXCEPT
               !.playerCards = IF player = "player" THEN RemoveCard(@, card) ELSE @,
               !.aiCards = IF player = "player" THEN @ ELSE RemoveCard(@, card),
               !.playedCards = Append(@, card),
               !.sum = @ + card]
    IN  IF played.sum % played.m = 0
        THEN [played EXCEPT
                !.gameOver = TRUE,
                !.winner = IF player = "player" THEN "ai" ELSE "player",
                !.message = IF player = "player"
                            THEN "aiWinsMultiple" ELSE "playerWinsMultiple"]
        ELSE IF Len(played.playerCards) = 0 /\ Len(played.aiCards) = 0
        THEN [played EXCEPT
                !.gameOver = TRUE,
                !.winner = "player",
                !.message = "playerWinsExhausted"]
        ELSE [played EXCEPT
                !.currentTurn = IF player = "player" THEN "ai" ELSE "player",
                !.message = IF player = "player" THEN "aiTurn" ELSE "playerTurn"]

\* playCard as the render of gameState defines it.
playCardInM7(gameState, card, player) ==
    /\ mmState' = PlayCardResultM7(gameState, card, player)
    /\ UNCHANGED mmHistory

\* playCard as a handler of the current render calls it.
playCardM7(card, player) == playCardInM7(mmState, card, player)

\* A card button is clicked; the buttons are disabled, and the handler
\* returns, unless it is the player's turn in a running game.
handleCardSelectM7 ==
    /\ ~(mmState.currentTurn # "player" \/ mmState.gameOver)
    /\ \E i \in 1..Len(mmState.playerCards) : playCardM7(mmState.playerCards[i], "player")
    /\ Render({}, mmState, mmState', "ai")
    /\ lastOp' = "handleCardSelectM7"
    /\ UNCHANGED <<ptVars, obVars>>

\* minimax of this revision.  The result is [score, card]; card = 0 stands for
\* no card.
RECURSIVE minimaxM7(_, _, _, _, _, _, _)
RECURSIVE MaxLoopM7(_, _, _, _, _, _, _, _, _)
RECURSIVE MinLoopM7(_, _, _, _, _, _, _, _, _)

minimaxM7(playerCards, aiCards, sum, isMaximizing, depth, alpha, beta) ==
    IF Len(playerCards) = 0 /\ Len(aiCards) = 0
    THEN [score |-> 1, card |-> 0]
    ELSE IF Len(IF isMaximizing THEN aiCards ELSE playerCards) = 0
    THEN minimaxM7(playerCards, aiCards, sum, ~isMaximizing, depth + 1, alpha, beta)
    ELSE IF isMaximizing
    THEN MaxLoopM7(playerCards, aiCards, sum, depth, alpha, beta, 1, NegInfinity, 0)
    ELSE MinLoopM7(playerCards, aiCards, sum, depth, alpha, beta, 1, PosInfinity, 0)

\* for (const card of aiCards), from the i-th card on: the first card that
\* makes the sum a multiple of m ends the loop with the penalty.
MaxLoopM7(playerCards, aiCards, sum, depth, alpha, beta, i, maxScore, bestCard) ==
    IF i > Len(aiCards)
    THEN [score |-> maxScore, card |-> bestCard]
    ELSE LET card == aiCards[i]
             newSum == sum + card
         IN  IF newSum % ModM7 = 0
             THEN [score |-> -10 + depth, card |-> card]
             ELSE LET result == minimaxM7(playerCards, RemoveCard(aiCards, card), newSum,
                                          FALSE, depth + 1, alpha, beta)
                      better == result.score > maxScore
                      newMax == IF better THEN result.score ELSE maxScore
                      newBest == IF better THEN card ELSE bestCard
                      newAlpha == Max(alpha, newMax)
                  IN  IF beta <= newAlpha
                      THEN [score |-> newMax, card |-> newBest]
                      ELSE MaxLoopM7(playerCards, aiCards, sum, depth, newAlpha, beta,
                                     i + 1, newMax, newBest)

\* for (const card of playerCards), from the i-th card on.
MinLoopM7(playerCards, aiCards, sum, depth, alpha, beta, i, minScore, bestCard) ==
    IF i > Len(playerCards)
    THEN [score |-> minScore, card |-> bestCard]
    ELSE LET card == playerCards[i]
             newSum == sum + card
         IN  IF newSum % ModM7 = 0
             THEN [score |-> 10 - depth, card |-> card]
             ELSE LET result == minimaxM7(RemoveCard(playerCards, card), aiCards, newSum,
                                          TRUE, depth + 1, alpha, beta)
                      better == result.score < minScore
                      newMin == IF better THEN result.score ELSE minScore
                      newBest == IF better THEN card ELSE bestCard
                      newBeta == Min(beta, newMin)
                  IN  IF newBeta <= alpha
                      THEN [score |-> newMin, card |-> newBest]
                      ELSE MinLoopM7(playerCards, aiCards, sum, depth, alpha, newBeta,
                                     i + 1, newMin, newBest)

\* The cards the AI effect of this revision may pass to playCard.
ChosenCardsM7(state) ==
    LET safeMoves == SafeMoves(state)
    IN  IF Len(safeMoves) > 0
        THEN LET result == minimaxM7(state.playerCards, safeMoves, state.sum, TRUE, 0,
                                     NegInfinity, PosInfinity)
             IN  IF result.card = 0 THEN SeqToSet(safeMoves) ELSE {result.card}
        ELSE SeqToSet(state.aiCards)

\* The timer callback of the AI effect of this revision.
AIPlayM7 ==
    /\ \E gameState \in aiTimers :
          /\ \E chosenCard \in ChosenCardsM7(gameState) :
                playCardInM7(gameState, chosenCard, "ai")
          /\ Render({gameState}, mmState, mmState', "ai")
    /\ lastOp' = "AIPlayM7"
    /\ UNCHANGED <<ptVars, obVars>>

(***************************************************************************)
(* Othello variant (src/src/pages/StrangeOthello.tsx), 6x6.                 *)
(***************************************************************************)

BoardSize == 6

Rows == 0..(BoardSize - 1)
Cols == 0..(BoardSize - 1)

CellStates == {"empty", "black", "white"}

DIRECTIONS ==
    << [row |-> -1, col |-> 0], [row |-> -1, col |-> 1], [row |-> 0, col |-> 1],
       [row |-> 1, col |-> 1], [row |-> 1, col |-> 0], [row |-> 1, col |-> -1],
       [row |-> 0, col |-> -1], [row |-> -1, col |-> -1] >>

\* A row of the board literal, indexed 0..5.
BoardRow(a, b, c, d, e, f) ==
    [col \in Cols |-> CASE col = 0 -> a [] col = 1 -> b [] col = 2 -> c
                        [] col = 3 -> d [] col = 4 -> e [] OTHER -> f]

\* A faulty board literal: the two centre rows are exchanged.
initialBoard_CentreSwapped ==
    [row \in Rows |->
        CASE row = 0 -> BoardRow("black", "black", "black", "black", "black", "white")
          [] row = 1 -> BoardRow("black", "empty", "empty", "empty", "empty", "white")
          [] row = 2 -> BoardRow("black", "empty", "black", "white", "empty", "white")
          [] row = 3 -> BoardRow("black", "empty", "white", "black", "empty", "white")
          [] row = 4 -> BoardRow("black", "empty", "empty", "empty", "empty", "white")
          [] OTHER -> BoardRow("black", "white", "white", "white", "white", "white")]

initialBoard ==
    [row \in Rows |->
        CASE row = 0 -> BoardRow("black", "black", "black", "black", "black", "white")
          [] row = 1 -> BoardRow("black", "empty", "empty", "empty", "empty", "white")
          [] row = 2 -> BoardRow("black", "empty", "white", "black", "empty", "white")
          [] row = 3 -> BoardRow("black", "empty", "black", "white", "empty", "white")
          [] row = 4 -> BoardRow("black", "empty", "empty", "empty", "empty", "white")
          [] OTHER -> BoardRow("black", "white", "white", "white", "white", "white")]

OpponentColor(color) == IF color = "black" THEN "white" ELSE "black"

\* r >= 0 && r < board.length && c >= 0 && c < board[0].length
InBoard(r, c) == r >= 0 /\ r < BoardSize /\ c >= 0 /\ c < BoardSize

\* The while loop over opponent pieces: the position at which it stops.
RECURSIVE WalkOpponent(_, _, _, _, _)
WalkOpponent(board, r, c, dir, opponent) ==
    IF InBoard(r, c) /\ board[r][c] = opponent
    THEN WalkOpponent(board, r + dir.row, c + dir.col, dir, opponent)
    ELSE [row |-> r, col |-> c]

\* foundOpponent && the loop stopped on a piece of color.
DirectionCaptures(board, row, col, dir, color) ==
    LET r0 == row + dir.row
        c0 == col + dir.col
        stop == WalkOpponent(board, r0, c0, dir, OpponentColor(color))
    IN  /\ stop # [row |-> r0, col |-> c0]
        /\ InBoard(stop.row, stop.col)
        /\ board[stop.row][stop.col] = color

\* A faulty direction loop without the break: one push per capturing direction.
CellPushes_NoBreak(board, row, col, color) ==
    IF board[row][col] # "empty" THEN <<>>
    ELSE [i \in 1..Cardinality({d \in 1..8 :
                   DirectionCaptures(board, row, col, DIRECTIONS[d], color)})
            |-> [row |-> row, col |-> col]]

\* What the body of the two for loops pushes for one cell: the cell once (then
\* break) when it is empty and some direction captures.
CellPushes(board, row, col, color) ==
    IF board[row][col] # "empty" THEN <<>>
    ELSE IF \E d \in 1..8 : DirectionCaptures(board, row, col, DIRECTIONS[d], color)
         THEN << [row |-> row, col |-> col] >>
         ELSE <<>>

\* The two for loops, row-major, from cell number k on.
RECURSIVE ValidMovesFrom(_, _, _)
ValidMovesFrom(board, color, k) ==
    IF k >= BoardSize * BoardSize THEN <<>>
    ELSE CellPushes(board, k \div BoardSize, k % BoardSize, color)
            \o ValidMovesFrom(board, color, k + 1)

findValidMoves(board, color) == ValidMovesFrom(board, color, 0)

\* The while loop of getFlippedPieces: the opponent pieces pushed on
\* piecesToFlip, walking from (r, c) in direction dir.
RECURSIVE PiecesToFlip(_, _, _, _, _)
PiecesToFlip(board, r, c, dir, opponent) ==
    IF InBoard(r, c) /\ board[r][c] = opponent
    THEN << [row |-> r, col |-> c] >>
            \o PiecesToFlip(board, r + dir.row, c + dir.col, dir, opponent)
    ELSE <<>>

\* A faulty direction step: the run is taken without looking for the closing piece.
DirectionFlips_Unclosed(board, row, col, dir, color) ==
    PiecesToFlip(board, row + dir.row, col + dir.col, dir, OpponentColor(color))

\* One iteration of the direction loop of getFlippedPieces: the run is kept
\* only when it is non-empty and the loop stopped on a piece of color.
DirectionFlips(board, row, col, dir, color) ==
    LET piecesToFlip == PiecesToFlip(board, row + dir.row, col + dir.col, dir,
                                     OpponentColor(color))
        r == row + (Len(piecesToFlip) + 1) * dir.row
        c == col + (Len(piecesToFlip) + 1) * dir.col
    IN  IF Len(piecesToFlip) > 0 /\ InBoard(r, c) /\ board[r][c] = color
        THEN piecesToFlip
        ELSE <<>>

\* The direction loop from direction number d on.
RECURSIVE FlippedFrom(_, _, _, _, _)
FlippedFrom(board, row, col, color, d) ==
    IF d > Len(DIRECTIONS) THEN <<>>
    ELSE DirectionFlips(board, row, col, DIRECTIONS[d], color)
            \o FlippedFrom(board, row, col, color, d + 1)

getFlippedPieces(board, row, col, color) == FlippedFrom(board, row, col, color, 1)

\* The loop of placePiece that recolours the flipped pieces of newBoard.
RECURSIVE RecolourFrom(_, _, _, _)
RecolourFrom(newBoard, flippedPieces, color, i) ==
    IF i > Len(flippedPieces) THEN newBoard
    ELSE RecolourFrom([newBoard EXCEPT
                          ![flippedPieces[i].row][flippedPieces[i].col] = color],
                      flippedPieces, color, i + 1)

\* A faulty placePiece: the captured pieces are recoloured, the piece itself
\* is not put down.
placePiece_FlipsOnly(board, row, col, color) ==
    RecolourFrom(board, getFlippedPieces(board, row, col, color), color, 1)

\* placePiece works on a copy of board and reads the flips from board itself.
placePiece(board, row, col, color) ==
    LET newBoard == [board EXCEPT ![row][col] = color]
    IN  RecolourFrom(newBoard, getFlippedPieces(board, row, col, color), color, 1)

\* ---- findValidMoves on its own, over a bounded family of boards ----

MaxEdits == 2

\* The boards that differ from the initial board in at most k cells.
RECURSIVE EditedBoards(_)
EditedBoards(k) ==
    IF k = 0 THEN {initialBoard}
    ELSE LET prev == EditedBoards(k - 1)
         IN  prev \cup {[b EXCEPT ![r][c] = v] :
                           b \in prev, r \in Rows, c \in Cols, v \in CellStates}

CallFindValidMoves ==
    /\ lastOp = "init"
    /\ obMoves' = findValidMoves(obBoard, obColor)
    /\ lastOp' = "findValidMoves"
    /\ UNCHANGED <<obBoard, obColor, obCell, obResult, obCtlVars, ptVars, mmVars,
                   aiTimers>>

\* ---- placePiece on its own, on every legal move of a family of boards ----

MaxPlaceEdits == 1

CallPlacePiece ==
    /\ lastOp = "init"
    /\ \E i \in 1..Len(findValidMoves(obBoard, obColor)) :
          LET move == findValidMoves(obBoard, obColor)[i]
          IN  /\ obCell' = move
              /\ obResult' = placePiece(obBoard, move.row, move.col, obColor)
    /\ lastOp' = "placePiece"
    /\ UNCHANGED <<obBoard, obColor, obMoves, obCtlVars, ptVars, mmVars, aiTimers>>

\* ---- the controller of StrangeOthello: gameState, history, handlers ----

\* Number of cells of board holding color.
countPieces(board, color) ==
    Cardinality({pos \in [row : Rows, col : Cols] : board[pos.row][pos.col] = color})

corners ==
    << [row |-> 0, col |-> 0], [row |-> 0, col |-> 5],
       [row |-> 5, col |-> 0], [row |-> 5, col |-> 5] >>

\* Row 0, row 5, then rows 1..4 of column 0 and of column 5.
edges ==
    [i \in 1..6 |-> [row |-> 0, col |-> i - 1]]
        \o [i \in 1..6 |-> [row |-> 5, col |-> i - 1]]
        \o [i \in 1..4 |-> [row |-> i, col |-> 0]]
        \o [i \in 1..4 |-> [row |-> i, col |-> 5]]

\* A faulty loop: black pieces are not subtracted.
CellScore_WhiteOnly(board, cells, weight, i) ==
    weight * Cardinality({j \in i..Len(cells) :
                             board[cells[j].row][cells[j].col] = "white"})

\* The loops of evaluateBoard over corners and edges: +weight for a white
\* piece, -weight for a black one.
RECURSIVE CellScore(_, _, _, _)
CellScore(board, cells, weight, i) ==
    IF i > Len(cells) THEN 0
    ELSE (IF board[cells[i].row][cells[i].col] = "white" THEN weight
          ELSE IF board[cells[i].row][cells[i].col] = "black" THEN -weight
          ELSE 0)
         + CellScore(board, cells, weight, i + 1)

\* Positive when white (the AI) is ahead.
evaluateBoard(board) ==
    LET pieceDifference == countPieces(board, "white") - countPieces(board, "black")
        cornerScore == CellScore(board, corners, 10, 1)
        edgeScore == CellScore(board, edges, 2, 1)
        mobilityScore == Len(findValidMoves(board, "white"))
                            - Len(findValidMoves(board, "black"))
    IN  pieceDifference * 3 + cornerScore + edgeScore + mobilityScore * 2

\* A faulty verdict: the side with fewer pieces wins.
determineWinner_FewerWins(board) ==
    IF countPieces(board, "black") > countPieces(board, "white") THEN "white"
    ELSE IF countPieces(board, "white") > countPieces(board, "black") THEN "black"
    ELSE "draw"

determineWinner(board) ==
    IF countPieces(board, "black") > countPieces(board, "white") THEN "black"
    ELSE IF countPieces(board, "white") > countPieces(board, "black") THEN "white"
    ELSE "draw"

\* move: null
NoMove == [row |-> -1, col |-> -1]

\* Alpha-beta search; white maximises. The two for loops are obMaxLoop and
\* obMinLoop, entered at move number i with the running alpha/beta, best score
\* and best move.
RECURSIVE obMinimax(_, _, _, _, _)
RECURSIVE obMaxLoop(_, _, _, _, _, _, _, _)
RECURSIVE obMinLoop(_, _, _, _, _, _, _, _)

\* A faulty break: the loop stops while the window is still open.
BetaCutoff_Eager(alpha, beta) == beta <= alpha + 6

\* if (beta <= alpha) break
BetaCutoff(alpha, beta) == beta <= alpha

obMinimax(board, depth, alpha, beta, maximizingPlayer) ==
    LET color == IF maximizingPlayer THEN "white" ELSE "black"
        validMoves == findValidMoves(board, color)
    IN  IF depth = 0 \/ Len(validMoves) = 0
        THEN [score |-> evaluateBoard(board), move |-> NoMove]
        ELSE IF maximizingPlayer
             THEN obMaxLoop(board, depth, alpha, beta, validMoves, 1, NegInfinity, NoMove)
             ELSE obMinLoop(board, depth, alpha, beta, validMoves, 1, PosInfinity, NoMove)

obMaxLoop(board, depth, alpha, beta, validMoves, i, maxEval, bestMove) ==
    IF i > Len(validMoves) THEN [score |-> maxEval, move |-> bestMove]
    ELSE LET move == validMoves[i]
             newBoard == placePiece(board, move.row, move.col, "white")
             evalResult == obMinimax(newBoard, depth - 1, alpha, beta, FALSE)
             better == evalResult.score > maxEval
             newMax == IF better THEN evalResult.score ELSE maxEval
             newBest == IF better THEN move ELSE bestMove
             newAlpha == Max(alpha, evalResult.score)
         IN  IF BetaCutoff(newAlpha, beta)
             THEN [score |-> newMax, move |-> newBest]
             ELSE obMaxLoop(board, depth, newAlpha, beta, validMoves, i + 1,
                            newMax, newBest)

obMinLoop(board, depth, alpha, beta, validMoves, i, minEval, bestMove) ==
    IF i > Len(validMoves) THEN [score |-> minEval, move |-> bestMove]
    ELSE LET move == validMoves[i]
             newBoard == placePiece(board, move.row, move.col, "black")
             evalResult == obMinimax(newBoard, depth - 1, alpha, beta, TRUE)
             better == evalResult.score < minEval
             newMin == IF better THEN evalResult.score ELSE minEval
             newBest == IF better THEN move ELSE bestMove
             newBeta == Min(beta, evalResult.score)
         IN  IF BetaCutoff(alpha, newBeta)
             THEN [score |-> newMin, move |-> newBest]
             ELSE obMinLoop(board, depth, alpha, newBeta, validMoves, i + 1,
                            newMin, newBest)

\* The call tree of minimax without the pruning breaks: the longest chain of
\* nested calls below a call with these arguments.
RECURSIVE obCallDepth(_, _, _)
obCallDepth(board, depth, maximizingPlayer) ==
    LET color == IF maximizingPlayer THEN "white" ELSE "black"
        validMoves == findValidMoves(board, color)
    IN  IF depth = 0 \/ Len(validMoves) = 0 THEN 0
        ELSE 1 + MaxOf({obCallDepth(placePiece(board, validMoves[i].row,
                                               validMoves[i].col, color),
                                    depth - 1, ~maximizingPlayer) :
                           i \in 1..Len(validMoves)})

initialGameState ==
    [board |-> initialBoard,
     currentTurn |-> "black",
     blackScore |-> countPieces(initialBoard, "black"),
     whiteScore |-> countPieces(initialBoard, "white"),
     gameOver |-> FALSE,
     winner |-> "null",
     validMoves |-> findValidMoves(initialBoard, "black")]

\* Sets the state and appends the new state to history.
obUpdateGameState(newState) ==
    /\ obState' = newState
    /\ obHistory' = Append(obHistory, newState)

\* A faulty guard of handleBlackMove: the cell is not looked up in validMoves.
BlackMoveAccepted_AnyCell(state, row, col) ==
    state.currentTurn = "black" /\ ~state.gameOver

\* The negation of the early return of handleBlackMove.
BlackMoveAccepted(state, row, col) ==
    /\ state.currentTurn = "black"
    /\ ~state.gameOver
    /\ \E i \in 1..Len(state.validMoves) :
          state.validMoves[i].row = row /\ state.validMoves[i].col = col

\* A faulty turn rule: black keeps the turn.
TurnAfterBlack_AlwaysBlack(whiteValidMoves) == "black"

\* A faulty turn rule: the turn goes to white even when white cannot move.
TurnAfterBlack_AlwaysWhite(whiteValidMoves) == "white"

\* currentTurn after black has placed a piece.
TurnAfterBlack(whiteValidMoves) ==
    IF Len(whiteValidMoves) > 0 THEN "white" ELSE "black"

\* The state handleBlackMove hands to updateGameState.
BlackMoveResult(state, row, col) ==
    LET newBoard == placePiece(state.board, row, col, "black")
        whiteValidMoves == findValidMoves(newBoard, "white")
        blackValidMoves == findValidMoves(newBoard, "black")
        nextValidMoves == IF Len(whiteValidMoves) > 0 THEN whiteValidMoves
                          ELSE blackValidMoves
    IN  [board |-> newBoard,
         currentTurn |-> TurnAfterBlack(whiteValidMoves),
         blackScore |-> countPieces(newBoard, "black"),
         whiteScore |-> countPieces(newBoard, "white"),
         gameOver |-> Len(whiteValidMoves) = 0 /\ Len(blackValidMoves) = 0,
         winner |-> "null",
         validMoves |-> nextValidMoves]

\* A click on any cell of the board: rejected calls return without a change.
handleBlackMove ==
    /\ \E row \in Rows, col \in Cols :
          IF BlackMoveAccepted(obState, row, col)
          THEN /\ obUpdateGameState(BlackMoveResult(obState, row, col))
               /\ Render({}, obState, obState', "white")
               /\ lastOp' = "handleBlackMove"
          ELSE /\ UNCHANGED <<obCtlVars, aiTimers>>
               /\ lastOp' = "handleBlackMoveRejected"
    /\ UNCHANGED <<obFnVars, ptVars, mmVars>>

\* A faulty depth: one ply more.
SearchDepth_Deeper == 4 + 1

SearchDepth == 4

\* The state the timer callback of the AI effect hands to updateGameState.
WhiteMoveResult(state) ==
    LET result == obMinimax(state.board, SearchDepth, NegInfinity, PosInfinity, TRUE)
    IN  IF result.move # NoMove
        THEN LET newBoard == placePiece(state.board, result.move.row,
                                        result.move.col, "white")
                 blackValidMoves == findValidMoves(newBoard, "black")
                 over == Len(blackValidMoves) = 0
                            /\ Len(findValidMoves(newBoard, "white")) = 0
             IN  [board |-> newBoard,
                  currentTurn |-> IF Len(blackValidMoves) > 0 THEN "black" ELSE "white",
                  blackScore |-> countPieces(newBoard, "black"),
                  whiteScore |-> countPieces(newBoard, "white"),
                  gameOver |-> over,
                  winner |-> IF over THEN determineWinner(newBoard) ELSE "null",
                  validMoves |-> blackValidMoves]
        ELSE LET blackValidMoves == findValidMoves(state.board, "black")
             IN  IF Len(blackValidMoves) = 0
                 THEN [state EXCEPT !.gameOver = TRUE,
                                    !.winner = determineWinner(state.board)]
                 ELSE [state EXCEPT !.currentTurn = "black",
                                    !.validMoves = blackValidMoves]

\* The timer callback of the AI effect: a pending timer fires and works on the
\* gameState it closed over.
AIWhiteMove ==
    /\ \E gameState \in aiTimers :
          /\ obUpdateGameState(WhiteMoveResult(gameState))
          /\ Render({gameState}, obState, obState', "white")
    /\ lastOp' = "AIWhiteMove"
    /\ UNCHANGED <<obFnVars, ptVars, mmVars>>

\* The effect that fills in the winner of a finished game.
winnerEffect ==
    /\ obState.gameOver /\ obState.winner = "null"
    /\ obUpdateGameState([obState EXCEPT !.winner = determineWinner(obState.board)])
    /\ Render({}, obState, obState', "white")
    /\ lastOp' = "winnerEffect"
    /\ UNCHANGED <<obFnVars, ptVars, mmVars>>

\* The updater handleUndo passes to setHistory, with the state it sets:
\* <<gameState, history>> after the call.
UndoResult(state, history) ==
    IF Len(history) >= 3
    THEN LET newHistory == SubSeq(history, 1, Len(history) - 2)
         IN  <<newHistory[Len(newHistory)], newHistory>>
    ELSE <<state, history>>

\* The undo button is rendered while the game runs and is disabled while
\* history holds fewer than 3 snapshots.
UndoButtonEnabled == ~obState.gameOver /\ Len(obHistory) >= 3

obHandleUndo ==
    /\ UndoButtonEnabled
    /\ obState' = UndoResult(obState, obHistory)[1]
    /\ obHistory' = UndoResult(obState, obHistory)[2]
    /\ Render({}, obState, obState', "white")
    /\ lastOp' = "obHandleUndo"
    /\ UNCHANGED <<obFnVars, ptVars, mmVars>>

\* ---- Earlier revision of the Othello variant (src/unnamed/part_001) ----
\* The sides are named player and ai.  findValidMoves, getFlippedPieces,
\* placePiece, countPieces, minimax, evaluateBoard and determineWinner are,
\* token for token, those of the later file with player for black and ai for
\* white, so the cells of this revision's board are written "black" for
\* player and "white" for ai and the operators above are used for both.
\* The state is held in obState; there is no history and obHistory stays
\* empty.

\* The cell value of a side of this revision.
CellOf(side) == IF side = "player" THEN "black" ELSE "white"

\* The side of this revision that determineWinner names.
determineWinnerP1(board) ==
    CASE determineWinner(board) = "black" -> "player"
      [] determineWinner(board) = "white" -> "ai"
      [] OTHER -> "draw"

initialBoardP1 ==
    [row \in Rows |->
        CASE row = 0 -> BoardRow("black", "empty", "empty", "empty", "empty", "empty")
          [] row = 1 -> BoardRow("black", "empty", "empty", "empty", "empty", "empty")
          [] row = 2 -> BoardRow("black", "empty", "black", "empty", "empty", "empty")
          [] row = 3 -> BoardRow("black", "empty", "empty", "black", "empty", "empty")
          [] row = 4 -> BoardRow("black", "empty", "empty", "empty", "empty", "empty")
          [] OTHER -> BoardRow("black", "white", "white", "white", "white", "white")]

\* The initializer passed to useState.
initialStateP1 ==
    [board |-> initialBoardP1,
     currentTurn |-> "player",
     playerScore |-> countPieces(initialBoardP1, CellOf("player")),
     aiScore |-> countPieces(initialBoardP1, CellOf("ai")),
     gameOver |-> FALSE,
     winner |-> "null",
     validMoves |-> findValidMoves(initialBoardP1, CellOf("player"))]

\* The negation of the early return of handlePlayerMove.
PlayerMoveAcceptedP1(state, row, col) ==
    /\ state.currentTurn = "player"
    /\ ~state.gameOver
    /\ \E i \in 1..Len(state.validMoves) :
          state.validMoves[i].row = row /\ state.validMoves[i].col = col

\* The state handlePlayerMove sets.
PlayerMoveResultP1(state, row, col) ==
    LET newBoard == placePiece(state.board, row, col, CellOf("player"))
        aiValidMoves == findValidMoves(newBoard, CellOf("ai"))
    IN  [board |-> newBoard,
         currentTurn |-> IF Len(aiValidMoves) > 0 THEN "ai" ELSE "player",
         playerScore |-> countPieces(newBoard, CellOf("player")),
         aiScore |-> countPieces(newBoard, CellOf("ai")),
         gameOver |-> Len(aiValidMoves) = 0
                         /\ Len(findValidMoves(newBoard, CellOf("player"))) = 0,
         winner |-> "null",
         validMoves |-> aiValidMoves]

\* A click on any cell of the board: rejected calls return without a change.
handlePlayerMoveP1 ==
    /\ \E row \in Rows, col \in Cols :
          IF PlayerMoveAcceptedP1(obState, row, col)
          THEN /\ obState' = PlayerMoveResultP1(obState, row, col)
               /\ Render({}, obState, obState', "ai")
               /\ lastOp' = "handlePlayerMoveP1"
          ELSE /\ UNCHANGED <<obState, aiTimers>>
               /\ lastOp' = "handlePlayerMoveP1Rejected"
    /\ UNCHANGED <<obHistory, obFnVars, ptVars, mmVars>>

\* The state the timer callback of the AI effect sets: the move is computed
\* from gameState, which the callback closed over, and the updaters passed to
\* setGameState spread prevState, the state at the time of the call.
AIMoveResultP1(gameState, prevState) ==
    LET result == obMinimax(gameState.board, 4, NegInfinity, PosInfinity, TRUE)
    IN  IF result.move # NoMove
        THEN LET newBoard == placePiece(gameState.board, result.move.row,
                                        result.move.col, CellOf("ai"))
                 playerValidMoves == findValidMoves(newBoard, CellOf("player"))
                 over == Len(playerValidMoves) = 0
                            /\ Len(findValidMoves(newBoard, CellOf("ai"))) = 0
             IN  [board |-> newBoard,
                  currentTurn |-> IF Len(playerValidMoves) > 0 THEN "player" ELSE "ai",
                  playerScore |-> countPieces(newBoard, CellOf("player")),
                  aiScore |-> countPieces(newBoard, CellOf("ai")),
                  gameOver |-> over,
                  winner |-> IF over THEN determineWinnerP1(newBoard) ELSE "null",
                  validMoves |-> playerValidMoves]
        ELSE LET playerValidMoves == findValidMoves(gameState.board, CellOf("player"))
             IN  IF Len(playerValidMoves) = 0
                 THEN [prevState EXCEPT !.gameOver = TRUE,
                                        !.winner = determineWinnerP1(prevState.board)]
                 ELSE [prevState EXCEPT !.currentTurn = "player",
                                        !.validMoves = playerValidMoves]

\* The timer callback of the AI effect: a pending timer fires and works on the
\* gameState it closed over.
AIMoveP1 ==
    /\ \E gameState \in aiTimers :
          /\ obState' = AIMoveResultP1(gameState, obState)
          /\ Render({gameState}, obState, obState', "ai")
    /\ lastOp' = "AIMoveP1"
    /\ UNCHANGED <<obHistory, obFnVars, ptVars, mmVars>>

\* The effect that fills in the winner of a finished game.
winnerEffectP1 ==
    /\ obState.gameOver /\ obState.winner = "null"
    /\ obState' = [obState EXCEPT !.winner = determineWinnerP1(obState.board)]
    /\ Render({}, obState, obState', "ai")
    /\ lastOp' = "winnerEffectP1"
    /\ UNCHANGED <<obHistory, obFnVars, ptVars, mmVars>>

\* ---- evaluateBoard on its own, over a bounded family of boards ----

MaxEvalEdits == 1

CallEvaluateBoard ==
    /\ lastOp = "init"
    /\ obResult' = evaluateBoard(obBoard)
    /\ lastOp' = "evaluateBoard"
    /\ UNCHANGED <<obBoard, obColor, obMoves, obCell, obCtlVars, ptVars, mmVars,
                   aiTimers>>

(***************************************************************************)
(* Specifications                                                          *)
(***************************************************************************)

\* Each specification runs one component; the variables of the other components
\* are held at these idle values.
MmIdle == [sum |-> 0]
ObIdle == <<>>

MmIdleInit == mmState = MmIdle /\ mmHistory = <<>>
ObFnIdleInit ==
    /\ obBoard = ObIdle /\ obColor = "black" /\ obMoves = <<>>
    /\ obCell = ObIdle /\ obResult = ObIdle
ObCtlIdleInit == obState = ObIdle /\ obHistory = <<>>
ObIdleInit == ObFnIdleInit /\ ObCtlIdleInit
PtIdleInit == ptState = PtInitialState(0, 0, 0) /\ ptHistory = <<>>

\* The 7-6-2 piece-taking game.
InitPT ==
    /\ ptState = PtInitialState(InitialBlue, InitialYellow, InitialRed)
    /\ ptHistory = <<>>
    /\ aiTimers = SetTimeout({}, ptState, "ai")
    /\ lastOp = "init"
    /\ MmIdleInit /\ ObIdleInit

NextPT ==
    \/ selectNextColor
    \/ selectPrevColor
    \/ increaseCount
    \/ decreaseCount
    \/ confirmPlayerMove
    \/ AIMove
    \/ undoLastMove

SpecPT == InitPT /\ [][NextPT]_vars

\* The 4-3-2 revision.
InitPT432 ==
    /\ ptState = PtInitialState(InitialBlue432, InitialYellow432, InitialRed432)
    /\ ptHistory = <<>>
    /\ aiTimers = SetTimeout({}, ptState, "ai")
    /\ lastOp = "init"
    /\ MmIdleInit /\ ObIdleInit

NextPT432 ==
    \/ selectNextColor432
    \/ selectPrevColor432
    \/ selectColorClick
    \/ increaseCount
    \/ decreaseCount
    \/ confirmPlayerMove
    \/ AIMove432
    \/ undoLastMove

SpecPT432 == InitPT432 /\ [][NextPT432]_vars

\* The Mod-M card game.
InitMM ==
    /\ mmState = initializeGame
    /\ mmHistory = <<>>
    /\ aiTimers = SetTimeout({}, mmState, "ai")
    /\ lastOp = "init"
    /\ PtIdleInit /\ ObIdleInit

NextMM ==
    \/ handleCardSelect
    \/ AIPlay
    \/ handleUndo

SpecMM == InitMM /\ [][NextMM]_vars

\* The earlier revision of the Mod-M card game.
InitMM7 ==
    /\ mmState = initializeGameM7
    /\ mmHistory = <<>>
    /\ aiTimers = SetTimeout({}, mmState, "ai")
    /\ lastOp = "init"
    /\ PtIdleInit /\ ObIdleInit

NextMM7 ==
    \/ handleCardSelectM7
    \/ AIPlayM7

\* Either revision of the Mod-M card game, chosen at the start.
InitModM == InitMM \/ InitMM7

EarlierRevisionRuns == mmState.m = ModM7

NextModM ==
    \/ (~EarlierRevisionRuns /\ NextMM)
    \/ (EarlierRevisionRuns /\ NextMM7)

SpecModM == InitModM /\ [][NextModM]_vars

\* findValidMoves applied to every board of the family and either colour.
InitFVM ==
    /\ obBoard \in EditedBoards(MaxEdits)
    /\ obColor \in {"black", "white"}
    /\ obMoves = <<>>
    /\ obCell = ObIdle /\ obResult = ObIdle
    /\ aiTimers = {}
    /\ lastOp = "init"
    /\ PtIdleInit /\ MmIdleInit /\ ObCtlIdleInit

NextFVM ==
    \/ CallFindValidMoves

SpecFVM == InitFVM /\ [][NextFVM]_vars

\* The Othello controller.
InitOB ==
    /\ obState = initialGameState
    /\ obHistory = << initialGameState >>
    /\ aiTimers = SetTimeout({}, obState, "white")
    /\ lastOp = "init"
    /\ PtIdleInit /\ MmIdleInit /\ ObFnIdleInit

NextOB ==
    \/ handleBlackMove
    \/ AIWhiteMove
    \/ winnerEffect
    \/ obHandleUndo

SpecOB == InitOB /\ [][NextOB]_vars

\* The winner effect runs after every render in which its condition holds.
SpecOBLive == SpecOB /\ WF_vars(winnerEffect)

\* The earlier revision of the Othello variant.
InitP1 ==
    /\ obState = initialStateP1
    /\ obHistory = <<>>
    /\ aiTimers = SetTimeout({}, obState, "ai")
    /\ lastOp = "init"
    /\ PtIdleInit /\ MmIdleInit /\ ObFnIdleInit

NextP1 ==
    \/ handlePlayerMoveP1
    \/ AIMoveP1
    \/ winnerEffectP1

\* Either revision of the Othello variant, chosen at the start.
InitOthellos == InitOB \/ InitP1

EarlierOthelloRuns == obHistory = <<>> /\ obState # ObIdle

NextOthellos ==
    \/ (~EarlierOthelloRuns /\ NextOB)
    \/ (EarlierOthelloRuns /\ NextP1)

SpecOthellos == InitOthellos /\ [][NextOthellos]_vars

\* Either controller that takes the human's moves: the Othello controller or
\* the Mod-M controller, chosen at the start.
InitEither == InitOB \/ InitMM

OthelloRuns == obHistory # <<>>

NextEither ==
    \/ (OthelloRuns /\ NextOB)
    \/ (~OthelloRuns /\ NextMM)

SpecEither == InitEither /\ [][NextEither]_vars

\* Any of the three controllers of src/src/pages, chosen at the start.
InitPages == InitPT \/ InitMM \/ InitOB

ModMRuns == mmState # MmIdle

NextPages ==
    \/ (OthelloRuns /\ NextOB)
    \/ (ModMRuns /\ NextMM)
    \/ (~OthelloRuns /\ ~ModMRuns /\ NextPT)

SpecPages == InitPages /\ [][NextPages]_vars

\* evaluateBoard applied to every board of the family.
InitEB ==
    /\ obBoard \in EditedBoards(MaxEvalEdits)
    /\ obColor = "white"
    /\ obMoves = <<>>
    /\ obCell = ObIdle /\ obResult = ObIdle
    /\ aiTimers = {}
    /\ lastOp = "init"
    /\ PtIdleInit /\ MmIdleInit /\ ObCtlIdleInit

NextEB ==
    \/ CallEvaluateBoard

SpecEB == InitEB /\ [][NextEB]_vars

\* placePiece applied to every legal move of every board of the family.
InitPP ==
    /\ obBoard \in EditedBoards(MaxPlaceEdits)
    /\ obColor \in {"black", "white"}
    /\ obMoves = <<>>
    /\ obCell = ObIdle /\ obResult = ObIdle
    /\ aiTimers = {}
    /\ lastOp = "init"
    /\ PtIdleInit /\ MmIdleInit /\ ObCtlIdleInit

NextPP ==
    \/ CallPlacePiece

SpecPP == InitPP /\ [][NextPP]_vars

(***************************************************************************)
(* Properties of the piece-taking game                                      *)
(***************************************************************************)

Heaps(state) == <<state.bluePieces, state.yellowPieces, state.redPieces>>

AIToMove(state) == state.currentTurn = "ai" /\ ~state.gameOver

Opponent(side) == IF side = "player" THEN "ai" ELSE "player"

LastSnapshot == ptHistory[Len(ptHistory)]

\* A step that is a move of either side pushes exactly one snapshot.
IsMoveStep == Len(ptHistory') = Len(ptHistory) + 1

\* C1: 7-6-2 game: whenever the AI moves from a position whose heap XOR is not 0,
\* some pile can be lowered to pile XOR nimSum (the random fallback is not
\* taken) and the position it leaves has heap XOR 0.
C1_NimMoveLeavesXorZero ==
    [][(AIToMove(ptState) /\ NimSum(ptState) # 0)
          => (/\ \E c \in {"blue", "yellow", "red"} :
                    BitXor(Pieces(ptState, c), NimSum(ptState)) < Pieces(ptState, c)
              /\ NimSum(ptState') = 0)]_vars

C1_Witness ==
    /\ lastOp = "AIMove"
    /\ NimSum(LastSnapshot) # 0
    /\ NimSum(ptState) = 0
    /\ TotalPieces(ptState) > 0

\* C2: the game is over exactly when all three heaps are empty, and then the
\* winner is the side that did not make the last move (the mover is the side
\* whose turn it was in the snapshot pushed by that move).
C2_LastMoverLoses ==
    /\ ptState.gameOver <=> TotalPieces(ptState) = 0
    /\ ptState.gameOver =>
          /\ Len(ptHistory) > 0
          /\ ptState.winner = Opponent(LastSnapshot.currentTurn)
    /\ ~ptState.gameOver => ptState.winner = "null"

C2_Witness ==
    /\ ptState.gameOver
    /\ lastOp = "AIMove"
    /\ ptState.winner = "player"

C2_WitnessPlayerEmpties ==
    /\ ptState.gameOver
    /\ lastOp = "confirmPlayerMove"
    /\ ptState.winner = "ai"

\* C3: every move (of the player or of the AI) takes k pieces, 1 <= k <= pile,
\* from exactly one heap and leaves the other two as they were (for the player,
\* k is the selected count and the heap the selected colour); no heap is ever
\* negative, and the total strictly decreases.
C3_MoveTakesFromOneHeap ==
    [][IsMoveStep =>
          /\ \E c \in {"blue", "yellow", "red"} :
                /\ Pieces(ptState, c) - Pieces(ptState', c) >= 1
                /\ Pieces(ptState', c) >= 0
                /\ ptState.currentTurn = "player" =>
                      /\ c = ptState.selectedColor
                      /\ Pieces(ptState, c) - Pieces(ptState', c) = ptState.selectedCount
                /\ \A d \in {"blue", "yellow", "red"} \ {c} :
                      Pieces(ptState', d) = Pieces(ptState, d) /\ Pieces(ptState, d) >= 0
          /\ TotalPieces(ptState') < TotalPieces(ptState)]_vars

C3_Witness ==
    /\ lastOp = "AIMove"
    /\ Len(ptHistory) >= 4
    /\ ptState.lastAIMove.count = 2

\* C4: 7-6-2 game: once the AI has been to move in a position whose heap XOR is
\* not 0, the game can only end with winner = ai.
C4_AIUnbeatableFromNonzeroXor ==
    (/\ ptState.gameOver
     /\ \E i \in 1..Len(ptHistory) :
           AIToMove(ptHistory[i]) /\ NimSum(ptHistory[i]) # 0)
        => ptState.winner = "ai"

RECURSIVE SeqSum(_)
SeqSum(s) == IF s = <<>> THEN 0 ELSE s[1] + SeqSum(Tail(s))

\* The sum on the table after the first k plays.
PrefixSum(state, k) == SeqSum(SubSeq(state.playedCards, 1, k))

Hand(state, side) == IF side = "player" THEN state.playerCards ELSE state.aiCards

BothHandsEmpty(state) == Len(state.playerCards) = 0 /\ Len(state.aiCards) = 0

\* A step that is a play of either side pushes exactly one snapshot.
IsPlayStep == Len(mmHistory') = Len(mmHistory) + 1

\* C6: the game ends exactly at the first play that makes the sum a multiple
\* of m (no earlier play did), the winner then is the opponent of the side that
\* played last; while the sum is no multiple of m and a hand is non-empty the
\* game is not over.
C6_SuddenDeathAtFirstMultiple ==
    LET n == Len(mmState.playedCards)
    IN  /\ \A k \in 1..(n - 1) : PrefixSum(mmState, k) % mmState.m # 0
        /\ (n > 0 /\ mmState.sum % mmState.m = 0) =>
              /\ mmState.gameOver
              /\ mmState.winner = Opponent(mmState.playedBy[n])
        /\ ((n = 0 \/ mmState.sum % mmState.m # 0) /\ ~BothHandsEmpty(mmState)) =>
              /\ ~mmState.gameOver
              /\ mmState.winner = "null"

C6_Witness ==
    /\ lastOp = "AIPlay"
    /\ mmState.gameOver
    /\ mmState.sum % mmState.m = 0
    /\ mmState.winner = "player"

C6_WitnessPlayerLoses ==
    /\ lastOp = "handleCardSelect"
    /\ mmState.gameOver
    /\ mmState.sum % mmState.m = 0
    /\ mmState.winner = "ai"

\* C7: N = 5, M = 9: when both hands are empty and the sum is no multiple of 9
\* the game is over and the AI has won.
C7_ExhaustionAIWins ==
    (BothHandsEmpty(mmState) /\ mmState.sum % 9 # 0) =>
        (mmState.gameOver /\ mmState.winner = "ai")

C7_Witness ==
    /\ BothHandsEmpty(mmState)
    /\ mmState.sum % 9 # 0
    /\ Len(mmState.playedCards) = 10

\* C8: sum is the arithmetic sum of playedCards, and playedBy is as long as
\* playedCards, in every reachable state (after undo too).
C8_SumMatchesPlayedCards ==
    /\ mmState.sum = SeqSum(mmState.playedCards)
    /\ Len(mmState.playedBy) = Len(mmState.playedCards)

C8_Witness ==
    /\ lastOp = "handleUndo"
    /\ Len(mmState.playedCards) >= 2
    /\ mmState.sum > 0

\* Side side has played value v.
PlayedBySide(state, side, v) ==
    \E i \in 1..Len(state.playedCards) :
        state.playedCards[i] = v /\ state.playedBy[i] = side

\* Every value 1..N is, for each side, in the hand (once) or played by that
\* side (once), never both and never neither.
HandsPartition(state) ==
    \A side \in {"player", "ai"} : \A v \in 1..state.n :
        /\ Cardinality({i \in 1..Len(Hand(state, side)) : Hand(state, side)[i] = v})
             + Cardinality({i \in 1..Len(state.playedCards) :
                               state.playedCards[i] = v /\ state.playedBy[i] = side}) = 1

\* C9: a play removes the played card from the hand of the side that played
\* and from nothing else, leaves the other hand unchanged and appends exactly
\* that card to playedCards; every state a step leads to partitions 1..N, for
\* each side, into the hand and the cards that side played.
C9_PlayMovesOneCard ==
    [][/\ HandsPartition(mmState')
       /\ IsPlayStep =>
             LET side == mmState.currentTurn
                 card == mmState'.playedCards[Len(mmState'.playedCards)]
             IN  /\ mmState'.playedCards = Append(mmState.playedCards, card)
                 /\ mmState'.playedBy = Append(mmState.playedBy, side)
                 /\ card \in SeqToSet(Hand(mmState, side))
                 /\ Hand(mmState', side) = SelectSeq(Hand(mmState, side), LAMBDA c : c # card)
                 /\ Len(Hand(mmState', side)) = Len(Hand(mmState, side)) - 1
                 /\ Hand(mmState', Opponent(side)) = Hand(mmState, Opponent(side))]_vars

C9_Witness ==
    /\ lastOp = "AIPlay"
    /\ Len(mmState.playedCards) >= 3
    /\ Len(mmState.aiCards) = 3
    /\ Len(mmState.playerCards) = 4
\* C15: a call of confirmPlayerMove while it is the AI's turn or after the end
\* of the game leaves the heaps, the turn, the winner and the history as they
\* are.
C15_EngineRejectsOutOfTurnMove ==
    (ptState.currentTurn = "ai" \/ ptState.gameOver) =>
        LET outcome == ConfirmPlayerMoveOutcome(ptState, ptHistory)
        IN  /\ Heaps(outcome[1]) = Heaps(ptState)
            /\ outcome[1].currentTurn = ptState.currentTurn
            /\ outcome[1].winner = ptState.winner
            /\ outcome[2] = ptHistory

\* C17: after every undo of the Mod-M controller the restored state has
\* currentTurn = player and gameOver = false.
C17_UndoRestoresPlayerTurn ==
    [][lastOp' = "handleUndo" =>
          (mmState'.currentTurn = "player" /\ ~mmState'.gameOver)]_vars

\* C18: in every reachable state with the player to move, confirmPlayerMove,
\* then any reply of the AI, then undoLastMove give back gameState (all of its
\* fields) and history as they were before the player's move.
C18_MoveReplyUndoRestores ==
    (ptState.currentTurn = "player" /\ ~ptState.gameOver) =>
        LET moved == ConfirmPlayerMoveOutcome(ptState, ptHistory)
        IN  AIToMove(moved[1]) =>
                \A replied \in AIMoveOutcomes(moved[1], moved[2]) :
                    UndoLastMoveOutcome(replied[1], replied[2]) = <<ptState, ptHistory>>

\* A state restored by undoLastMove after the AI had replied, in a later round
\* and with more than one piece selected.
C18_Witness ==
    /\ lastOp = "undoLastMove"
    /\ Len(ptHistory) >= 2
    /\ ptState.selectedCount >= 2
    /\ AIToMove(ConfirmPlayerMoveOutcome(ptState, ptHistory)[1])

(***************************************************************************)
(* Properties of the Othello variant                                        *)
(***************************************************************************)

\* The capture rule, stated on its own: the cell is empty and in some direction
\* the next k >= 1 cells hold opponent pieces and the cell after them holds a
\* piece of color, all of them on the board.
CaptureCell(board, row, col, color) ==
    /\ board[row][col] = "empty"
    /\ \E d \in 1..8 : \E k \in 1..(BoardSize - 2) :
          LET dir == DIRECTIONS[d]
              er == row + (k + 1) * dir.row
              ec == col + (k + 1) * dir.col
          IN  /\ er \in Rows /\ ec \in Cols
              /\ board[er][ec] = color
              /\ \A j \in 1..k :
                    board[row + j * dir.row][col + j * dir.col] = OpponentColor(color)

CaptureCells(board, color) ==
    {pos \in [row : Rows, col : Cols] : CaptureCell(board, pos.row, pos.col, color)}

\* C10: findValidMoves(board, colour) lists exactly the empty cells from which
\* some direction holds a run of one or more opponent pieces immediately
\* followed by a piece of colour: none missing, none extra, none twice.
C10_FindValidMovesExact ==
    lastOp = "findValidMoves" =>
        /\ SeqToSet(obMoves) = CaptureCells(obBoard, obColor)
        /\ Len(obMoves) = Cardinality(CaptureCells(obBoard, obColor))

C10_Witness ==
    /\ lastOp = "findValidMoves"
    /\ obBoard # initialBoard
    /\ Len(obMoves) >= 5
    /\ obBoard[0][0] = "empty"
    /\ [row |-> 0, col |-> 0] \in SeqToSet(obMoves)

\* The cells placePiece is to flip, stated on their own: the cells at distance
\* k >= 1 from (row, col) in one of the eight directions such that, for some
\* n >= k, the n cells next to (row, col) in that direction hold opponent
\* pieces and the cell after them holds a piece of color, all on the board.
ClosedRun(board, row, col, dr, dc, n, color) ==
    /\ \A j \in 1..n :
          /\ row + j * dr \in Rows /\ col + j * dc \in Cols
          /\ board[row + j * dr][col + j * dc] = OpponentColor(color)
    /\ row + (n + 1) * dr \in Rows /\ col + (n + 1) * dc \in Cols
    /\ board[row + (n + 1) * dr][col + (n + 1) * dc] = color

FlipCells(board, row, col, color) ==
    {pos \in [row : Rows, col : Cols] :
        \E dr \in -1..1, dc \in -1..1 : \E n \in 1..BoardSize : \E k \in 1..n :
            /\ <<dr, dc>> # <<0, 0>>
            /\ pos.row = row + k * dr /\ pos.col = col + k * dc
            /\ ClosedRun(board, row, col, dr, dc, n, color)}

\* An opponent piece next to (row, col) whose run is not closed by color.
OpenRunNextTo(board, row, col, color) ==
    \E dr \in -1..1, dc \in -1..1 :
        /\ row + dr \in Rows /\ col + dc \in Cols
        /\ board[row + dr][col + dc] = OpponentColor(color)
        /\ [row |-> row + dr, col |-> col + dc] \notin FlipCells(board, row, col, color)

\* C11: for every legal move, placePiece returns the input board with the
\* chosen cell set to the mover's colour and exactly the closed opponent runs
\* of the eight directions recoloured; opponent pieces of an open run and
\* every other cell keep their value.
C11_PlacePieceFlipsClosedRuns ==
    lastOp = "placePiece" =>
        LET flipped == FlipCells(obBoard, obCell.row, obCell.col, obColor)
        IN  \A r \in Rows, c \in Cols :
                obResult[r][c] =
                    IF <<r, c>> = <<obCell.row, obCell.col>>
                           \/ [row |-> r, col |-> c] \in flipped
                    THEN obColor
                    ELSE obBoard[r][c]

\* A placement that flips in two directions at once and leaves an open run alone.
C11_Witness ==
    /\ lastOp = "placePiece"
    /\ \E p, q \in FlipCells(obBoard, obCell.row, obCell.col, obColor) :
          /\ p # q
          /\ {p.row - obCell.row, q.row - obCell.row} \subseteq {-1, 0, 1}
          /\ {p.col - obCell.col, q.col - obCell.col} \subseteq {-1, 0, 1}
    /\ OpenRunNextTo(obBoard, obCell.row, obCell.col, obColor)
    /\ obResult # obBoard
(***************************************************************************)
(* Properties of the Othello controller                                     *)
(***************************************************************************)

HasLegalMove(board, color) == CaptureCells(board, color) # {}

\* A step of handleBlackMove or of the AI callback that put a piece on the board.
IsPlacement ==
    /\ lastOp' \in {"handleBlackMove", "AIWhiteMove"}
    /\ obState'.board # obState.board

PlacementMover == IF lastOp' = "handleBlackMove" THEN "black" ELSE "white"

\* C12: after every placement, the turn passes to the mover's opponent when
\* the opponent has a legal move on the new board, stays with the mover when
\* only the mover has one, and gameOver is true exactly when neither has one.
C12_TurnAfterPlacement ==
    [][IsPlacement =>
          LET newBoard == obState'.board
              mover == PlacementMover
              other == OpponentColor(mover)
          IN  /\ HasLegalMove(newBoard, other) => obState'.currentTurn = other
              /\ (~HasLegalMove(newBoard, other) /\ HasLegalMove(newBoard, mover))
                     => obState'.currentTurn = mover
              /\ obState'.gameOver
                     <=> (~HasLegalMove(newBoard, other) /\ ~HasLegalMove(newBoard, mover))
      ]_vars

\* Black has placed a piece, white cannot answer, and black is to move again.
C12_Witness ==
    /\ lastOp = "handleBlackMove"
    /\ obState.currentTurn = "black"
    /\ ~obState.gameOver
    /\ ~HasLegalMove(obState.board, "white")

\* The AI has placed a piece, black cannot answer, and the AI is to move again.
C12_WitnessWhiteKeepsTurn ==
    /\ lastOp = "AIWhiteMove"
    /\ obState.currentTurn = "white"
    /\ ~obState.gameOver

\* A placement after which neither side can move.
C12_WitnessGameOver ==
    /\ lastOp \in {"handleBlackMove", "AIWhiteMove"}
    /\ obState.gameOver

InitialLegalSet ==
    { [row |-> 1, col |-> 2], [row |-> 2, col |-> 1],
      [row |-> 3, col |-> 4], [row |-> 4, col |-> 3] }

\* C13: in the initial position (the first snapshot of history, black to
\* move) the legal moves are the four cells (1,2), (2,1), (3,4), (4,3), each
\* listed once and each a capture.
C13_InitialLegalMoves ==
    LET first == obHistory[1]
    IN  /\ first.currentTurn = "black"
        /\ SeqToSet(first.validMoves) = InitialLegalSet
        /\ Len(first.validMoves) = 4
        /\ \A pos \in InitialLegalSet :
               CaptureCell(first.board, pos.row, pos.col, "black")

\* Black has opened with one of the four cells.
C13_Witness ==
    /\ lastOp = "handleBlackMove"
    /\ Len(obHistory) = 2
    /\ obHistory[1].board = initialBoard
    /\ obState.board[1][2] = "black"
IsBlackMoveCall == lastOp' \in {"handleBlackMove", "handleBlackMoveRejected"}

IsCardSelectCall == lastOp' \in {"handleCardSelect", "handleCardSelectRejected"}

\* The call put a black piece on an empty cell listed in validMoves.
PlacedOnLegalCell ==
    \E i \in 1..Len(obState.validMoves) :
        LET pos == obState.validMoves[i]
        IN  /\ obState.board[pos.row][pos.col] = "empty"
            /\ obState'.board[pos.row][pos.col] = "black"
            /\ \A r \in Rows, c \in Cols :
                  (obState.board[r][c] = "empty" /\ <<r, c>> # <<pos.row, pos.col>>)
                      => obState'.board[r][c] = "empty"

\* C14: a call of handleBlackMove while it is not black's turn, while the game
\* is over, or for a cell outside validMoves, and a call of handleCardSelect
\* while it is not the player's turn or the game is over, leave gameState and
\* history as they are.
C14_RejectedInputChangesNothing ==
    [][/\ (OthelloRuns /\ IsBlackMoveCall
              /\ (obState.currentTurn # "black" \/ obState.gameOver))
          => UNCHANGED obCtlVars
       /\ (OthelloRuns /\ IsBlackMoveCall /\ ~UNCHANGED obCtlVars)
          => PlacedOnLegalCell
       /\ (~OthelloRuns /\ IsCardSelectCall
              /\ (mmState.currentTurn # "player" \/ mmState.gameOver))
          => UNCHANGED mmVars
      ]_vars

\* A click on the board was rejected during the AI's turn.
C14_Witness ==
    /\ lastOp = "handleBlackMoveRejected"
    /\ obState.currentTurn = "white"
    /\ Len(obHistory) >= 4

\* A click on the board was rejected after the end of the game.
C14_WitnessOthelloOver ==
    /\ lastOp = "handleBlackMoveRejected"
    /\ obState.gameOver

\* A click on a cell outside validMoves was rejected on black's turn.
C14_WitnessIllegalCell ==
    /\ lastOp = "handleBlackMoveRejected"
    /\ obState.currentTurn = "black" /\ ~obState.gameOver

\* A card was rejected during the AI's turn, and one after the end of the game.
C14_WitnessCardAITurn ==
    /\ lastOp = "handleCardSelectRejected"
    /\ mmState.currentTurn = "ai" /\ ~mmState.gameOver

C14_WitnessCardOver ==
    /\ lastOp = "handleCardSelectRejected"
    /\ mmState.gameOver
\* C16: after every undo of the Othello controller the restored state has
\* currentTurn = black.
C16_UndoRestoresBlackTurn ==
    [][lastOp' = "obHandleUndo" => obState'.currentTurn = "black"]_vars

\* The snapshot black's latest move was made from: the last snapshot before
\* the current one in which black was to move.
LastBlackTurnIndex ==
    CHOOSE j \in 1..(Len(obHistory) - 1) :
        /\ obHistory[j].currentTurn = "black"
        /\ \A i \in (j + 1)..(Len(obHistory) - 1) : obHistory[i].currentTurn # "black"

\* C19: an undo after a move of black, with or without a reply of the AI and
\* with or without a pass, gives back gameState and history as they were
\* before that move.
C19_UndoRestoresStateBeforeMove ==
    [][lastOp' = "obHandleUndo" =>
          /\ obState' = obHistory[LastBlackTurnIndex]
          /\ obHistory' = SubSeq(obHistory, 1, LastBlackTurnIndex)]_vars

EarlierBlackTurnSnapshot ==
    \E i \in 1..(Len(obHistory) - 1) : obHistory[i].currentTurn = "black"

UndoFails == UndoResult(obState, obHistory) = <<obState, obHistory>>

\* C20: handleUndo leaves gameState and history unchanged exactly when history
\* holds no earlier snapshot with black to move.
C20_UndoFailsIffNoEarlierBlackTurn ==
    UndoFails <=> ~EarlierBlackTurnSnapshot

\* The board after color is placed on (row, col), stated with the cells of
\* the capture rule.
PlacedBoard(board, row, col, color) ==
    LET flipped == FlipCells(board, row, col, color)
    IN  [r \in Rows |-> [c \in Cols |->
            IF (r = row /\ c = col) \/ [row |-> r, col |-> c] \in flipped
            THEN color
            ELSE board[r][c]]]

\* next.board is prev.board after one legal placement of the side to move in prev.
OneLegalPlacement(prev, next) ==
    \E pos \in CaptureCells(prev.board, prev.currentTurn) :
        next.board = PlacedBoard(prev.board, pos.row, pos.col, prev.currentTurn)

\* C21: every snapshot of history but the first is the one before it after
\* exactly one legal placement of the side whose turn it was there.
C21_HistoryStepsArePlacements ==
    \A i \in 1..(Len(obHistory) - 1) : OneLegalPlacement(obHistory[i], obHistory[i + 1])

\* C22: validMoves lists exactly the legal moves of currentTurn on board, and
\* the two scores are the numbers of black and of white pieces on board.
C22_DerivedFieldsAgreeWithBoard ==
    /\ SeqToSet(obState.validMoves) = CaptureCells(obState.board, obState.currentTurn)
    /\ Len(obState.validMoves)
          = Cardinality(CaptureCells(obState.board, obState.currentTurn))
    /\ obState.blackScore
          = Cardinality({pos \in [row : Rows, col : Cols] :
                            obState.board[pos.row][pos.col] = "black"})
    /\ obState.whiteScore
          = Cardinality({pos \in [row : Rows, col : Cols] :
                            obState.board[pos.row][pos.col] = "white"})

\* C23: winner is null exactly while the game is in progress.
C23_WinnerNullIffInProgress ==
    (obState.winner = "null") <=> ~obState.gameOver
(***************************************************************************)
(* Properties of the two searches                                           *)
(***************************************************************************)

\* The boards minimax is called on at the root in the current state: the
\* board itself by the AI callback on white's turn, and the board after each
\* move of validMoves by getMinimaxEvaluationForMove on black's turn.
OthelloSearchRoots ==
    IF obState.gameOver THEN {}
    ELSE IF obState.currentTurn = "white" THEN {obState.board}
    ELSE {placePiece(obState.board, obState.validMoves[i].row,
                     obState.validMoves[i].col, "black") :
             i \in 1..Len(obState.validMoves)}

\* The AI callback calls minimax while some card of its hand is safe.
ModMSearchCalled ==
    /\ mmState.currentTurn = "ai" /\ ~mmState.gameOver
    /\ \E i \in 1..Len(mmState.aiCards) : (mmState.sum + mmState.aiCards[i]) % ModM # 0

SafeHand(state) ==
    SelectSeq(state.aiCards, LAMBDA card : (state.sum + card) % ModM # 0)

\* C24: every root call of the Othello minimax nests at most 4 calls deep;
\* every root call of the Mod-M minimax nests at most two calls per card left
\* and never makes a pass call directly from a pass call.
C24_SearchTerminates ==
    /\ OthelloRuns =>
          \A root \in OthelloSearchRoots : obCallDepth(root, SearchDepth, TRUE) <= 4
    /\ (~OthelloRuns /\ ModMSearchCalled) =>
          /\ mmCallDepth(mmState.playerCards, SafeHand(mmState), mmState.sum, TRUE)
                <= 2 * (Len(mmState.playerCards) + Len(SafeHand(mmState)))
          /\ ~mmPassesTwice(mmState.playerCards, SafeHand(mmState), mmState.sum,
                            TRUE, FALSE)

\* A root call of the Othello search that reaches the fourth ply.
C24_Witness ==
    /\ OthelloRuns
    /\ obState.currentTurn = "white" /\ ~obState.gameOver
    /\ obCallDepth(obState.board, SearchDepth, TRUE) = 4

\* A root call of the Othello search that stops early at a node without a move.
C24_WitnessStopsEarly ==
    /\ OthelloRuns
    /\ obState.currentTurn = "white" /\ ~obState.gameOver
    /\ obCallDepth(obState.board, SearchDepth, TRUE) < 4

\* A root call of the Mod-M search whose call tree holds a pass.
C24_WitnessPass ==
    /\ ~OthelloRuns /\ ModMSearchCalled
    /\ mmCallDepth(mmState.playerCards, SafeHand(mmState), mmState.sum, TRUE)
          > Len(mmState.playerCards) + Len(SafeHand(mmState))
AllCells == [row : Rows, col : Cols]

CornerCells == {pos \in AllCells : pos.row \in {0, 5} /\ pos.col \in {0, 5}}

BorderCells == {pos \in AllCells : pos.row \in {0, 5} \/ pos.col \in {0, 5}}

\* Number of cells of the set that hold color.
CountIn(board, cells, color) ==
    Cardinality({pos \in cells : board[pos.row][pos.col] = color})

\* White minus black over the cells of the set.
Differential(board, cells) ==
    CountIn(board, cells, "white") - CountIn(board, cells, "black")

MobilityDifferential(board) ==
    Cardinality(CaptureCells(board, "white")) - Cardinality(CaptureCells(board, "black"))

OthelloSearchNodes ==
    {<<root, SearchDepth, TRUE>> : root \in OthelloSearchRoots}
        \cup UNION {{<<placePiece(root, pos.row, pos.col, "white"), SearchDepth - 1, FALSE>> :
                        pos \in CaptureCells(root, "white")} :
                     root \in OthelloSearchRoots}

\* The side to move at the node cannot move and the other side can.
IsPassNode(node) ==
    LET color == IF node[3] THEN "white" ELSE "black"
        other == IF node[3] THEN "black" ELSE "white"
    IN  /\ node[2] > 0
        /\ CaptureCells(node[1], color) = {}
        /\ CaptureCells(node[1], other) # {}

\* C26: at a node with depth > 0 where the side to move has no legal move
\* and the other side has one, the value of the node is the value of the
\* same board with the other side to move at the same depth.
C26_SearchPassesTurn ==
    OthelloRuns =>
        \A node \in OthelloSearchNodes :
            IsPassNode(node) =>
                obMinimax(node[1], node[2], NegInfinity, PosInfinity, node[3]).score
                    = obMinimax(node[1], node[2], NegInfinity, PosInfinity, ~node[3]).score

RECURSIVE PlainValue(_, _, _)
\* Minimax without pruning: the static evaluation at depth 0 and where the
\* side to move has no legal move, otherwise the best child value.
PlainValue(board, depth, maximizingPlayer) ==
    LET color == IF maximizingPlayer THEN "white" ELSE "black"
        moves == findValidMoves(board, color)
        values == {PlainValue(placePiece(board, moves[i].row, moves[i].col, color),
                              depth - 1, ~maximizingPlayer) : i \in 1..Len(moves)}
    IN  IF depth = 0 \/ Len(moves) = 0 THEN evaluateBoard(board)
        ELSE IF maximizingPlayer
             THEN CHOOSE v \in values : \A w \in values : w <= v
             ELSE CHOOSE v \in values : \A w \in values : v <= w

\* White's legal moves on the board in findValidMoves' order, each with the
\* unpruned value of the board it leads to: <<index, move, value>>.
RootChoices(board, depth) ==
    LET moves == findValidMoves(board, "white")
    IN  {<<i, moves[i],
           PlainValue(placePiece(board, moves[i].row, moves[i].col, "white"),
                      depth - 1, FALSE)>> : i \in 1..Len(moves)}

\* The first choice among those of the highest value.
FirstBest(choices) ==
    CHOOSE c \in choices :
        \A d \in choices : d[3] < c[3] \/ (d[3] = c[3] /\ c[1] <= d[1])

\* C27: on every board where white has a legal move, the pruned search
\* called with the full window returns the unpruned minimax score and the
\* first legal move in row-major order that attains it.
C27_PruningKeepsRootResult ==
    OthelloRuns =>
        \A root \in OthelloSearchRoots :
            LET choices == RootChoices(root, 4)
                result == obMinimax(root, 4, NegInfinity, PosInfinity, TRUE)
            IN  choices # {} =>
                    /\ result.score = FirstBest(choices)[3]
                    /\ result.move = FirstBest(choices)[2]

\* The AI is about to search a board on which two of white's moves attain
\* the unpruned value of the board.
C27_Witness ==
    /\ OthelloRuns /\ ~obState.gameOver /\ obState.currentTurn = "white"
    /\ LET choices == RootChoices(obState.board, 4)
       IN  /\ choices # {}
           /\ \E c \in choices : c # FirstBest(choices) /\ c[3] = FirstBest(choices)[3]

(***************************************************************************)
(* Properties of the Mod-M AI                                              *)
(***************************************************************************)

IsAIPlay == lastOp' \in {"AIPlay", "AIPlayM7"}

\* The card a step of playCard has put on the table.
PlayedCard == mmState'.playedCards[Len(mmState'.playedCards)]

\* Playing the card from the state keeps the sum off the multiples of m.
IsSafeCard(state, card) == (state.sum + card) % state.m # 0

\* C28: on every AI turn the AI plays a card of its own hand, and while its
\* hand holds a card that keeps the sum off the multiples of m the card it
\* plays is such a card.
C28_AIPlaysSafeCardWhenItCan ==
    [][IsAIPlay =>
          /\ \E i \in 1..Len(mmState.aiCards) : mmState.aiCards[i] = PlayedCard
          /\ mmState'.sum = mmState.sum + PlayedCard
          /\ (\E i \in 1..Len(mmState.aiCards) : IsSafeCard(mmState, mmState.aiCards[i]))
                => IsSafeCard(mmState, PlayedCard)]_vars

\* The card the last step of the game played, and the sum before it.
LastCard == mmState.playedCards[Len(mmState.playedCards)]

\* The AI has just played in the N = 5, M = 9 game while another card of its
\* hand would have made the sum a multiple of m, and the game goes on.
C28_Witness ==
    /\ lastOp = "AIPlay" /\ ~mmState.gameOver
    /\ \E i \in 1..Len(mmState.aiCards) :
          (mmState.sum - LastCard + mmState.aiCards[i]) % mmState.m = 0

\* The same in the earlier revision.
C28_WitnessEarlierRevision ==
    /\ lastOp = "AIPlayM7" /\ ~mmState.gameOver
    /\ \E i \in 1..Len(mmState.aiCards) :
          (mmState.sum - LastCard + mmState.aiCards[i]) % mmState.m = 0

\* The AI has just made the sum a multiple of m: no card of its hand was safe.
C28_WitnessForced ==
    /\ lastOp \in {"AIPlay", "AIPlayM7"}
    /\ mmState.gameOver /\ mmState.sum % mmState.m = 0

\* A call of minimax: [playerCards, aiCards, sum, isMaximizing, depth].
SearchNode(playerCards, aiCards, sum, isMaximizing, depth) ==
    [playerCards |-> playerCards, aiCards |-> aiCards, sum |-> sum,
     isMaximizing |-> isMaximizing, depth |-> depth]

\* The root call of the AI effect in the state.
RootNode(state) == SearchNode(state.playerCards, SafeMoves(state), state.sum, TRUE, 0)

NodeHand(node) == IF node.isMaximizing THEN node.aiCards ELSE node.playerCards

\* The cards of the side to move that make the sum a multiple of m.
LosingCards(node) == {c \in SeqToSet(NodeHand(node)) : (node.sum + c) % mmState.m = 0}

\* The node reached by playing the card at the node.
ChildNode(node, card) ==
    IF node.isMaximizing
    THEN SearchNode(node.playerCards, RemoveCard(node.aiCards, card), node.sum + card,
                    FALSE, node.depth + 1)
    ELSE SearchNode(RemoveCard(node.playerCards, card), node.aiCards, node.sum + card,
                    TRUE, node.depth + 1)

\* The nodes below a node along cards that do not lose at once, down to k
\* plies, the node itself included; a node with an empty hand has the pass
\* as its only child.
RECURSIVE NodesWithin(_, _)
NodesWithin(node, k) ==
    IF k = 0 \/ (Len(node.playerCards) = 0 /\ Len(node.aiCards) = 0) THEN {node}
    ELSE IF Len(NodeHand(node)) = 0
    THEN {node} \cup NodesWithin([node EXCEPT !.isMaximizing = ~@, !.depth = @ + 1], k - 1)
    ELSE {node} \cup UNION {NodesWithin(ChildNode(node, c), k - 1) :
                               c \in SeqToSet(NodeHand(node)) \ LosingCards(node)}

\* The value the revision that runs gives the node with the full window.
NodeValue(node) ==
    IF EarlierRevisionRuns
    THEN minimaxM7(node.playerCards, node.aiCards, node.sum, node.isMaximizing,
                   node.depth, NegInfinity, PosInfinity).score
    ELSE minimax(node.playerCards, node.aiCards, node.sum, node.isMaximizing,
                 node.depth, NegInfinity, PosInfinity).score

\* -10 + depth for the AI, 10 - depth for the player.
ImmediateLossValue(isMaximizing, depth) ==
    IF isMaximizing THEN -10 + depth ELSE 10 - depth

\* The score of the position with both hands empty.
ExhaustionScore == IF EarlierRevisionRuns THEN 1 ELSE -1

\* a is strictly worse than b for the side to move.
StrictlyWorse(isMaximizing, a, b) == IF isMaximizing THEN a < b ELSE a > b

SearchPlies == 2

\* C29: at every node of the search where the side to move holds a card, the
\* value is the immediate-loss value exactly when every card of that side
\* makes the sum a multiple of m, otherwise it is the best value over the
\* cards that do not; and the immediate-loss value is strictly worse for
\* that side than the exhaustion score and the other side's immediate loss.
C29_ImmediateLossOnlyWhenForced ==
    (mmState.currentTurn = "ai" /\ ~mmState.gameOver /\ Len(SafeMoves(mmState)) > 0) =>
        \A node \in NodesWithin(RootNode(mmState), SearchPlies) :
            Len(NodeHand(node)) > 0 =>
                LET hand == SeqToSet(NodeHand(node))
                    loss == ImmediateLossValue(node.isMaximizing, node.depth)
                    value == NodeValue(node)
                    childValues == {NodeValue(ChildNode(node, c)) : c \in hand \ LosingCards(node)}
                IN  /\ (value = loss) <=> (LosingCards(node) = hand)
                    /\ LosingCards(node) # hand =>
                          /\ value \in childValues
                          /\ \A w \in childValues : ~StrictlyWorse(node.isMaximizing, value, w)
                    /\ StrictlyWorse(node.isMaximizing, loss, ExhaustionScore)
                    /\ StrictlyWorse(node.isMaximizing, loss,
                                     ImmediateLossValue(~node.isMaximizing, node.depth + 1))

\* The AI wins the game from the state whatever the player does, under the
\* rules playCard applies: the side that makes the sum a multiple of m
\* loses, and the AI wins when all cards are played.
RECURSIVE AICanForceWin(_)
AICanForceWin(state) ==
    IF state.gameOver THEN state.winner = "ai"
    ELSE IF state.currentTurn = "ai"
    THEN \E i \in 1..Len(state.aiCards) :
            AICanForceWin(PlayCardResult(state, state.aiCards[i], "ai"))
    ELSE \A i \in 1..Len(state.playerCards) :
            AICanForceWin(PlayCardResult(state, state.playerCards[i], "player"))

\* C30: in the N = 5, M = 9 game, whenever the AI moves from a state in
\* which it can force a win, the state its card leads to is one from which
\* it can still force a win.
C30_AIKeepsForcedWin ==
    [][(lastOp' = "AIPlay" /\ AICanForceWin(mmState)) => AICanForceWin(mmState')]_vars

\* The AI has just played from a state in which it could force a win and in
\* which a card of its hand would have lost at once, and it can still force
\* a win in a game that goes on.
C30_Witness ==
    /\ lastOp = "AIPlay" /\ mmState.m = ModM /\ ~mmState.gameOver
    /\ AICanForceWin(mmState)
    /\ LET before == mmHistory[Len(mmHistory)]
       IN  /\ AICanForceWin(before)
           /\ \E i \in 1..Len(before.aiCards) : ~IsSafeCard(before, before.aiCards[i])

(***************************************************************************)
(* Further properties of the piece-taking games                            *)
(***************************************************************************)

\* The position is won by the side to move when the last piece loses: some
\* heap holds two or more and the XOR is not 0, or no heap holds more than
\* one and the number of heaps that hold one is even.
MisereWinning(state) ==
    LET heaps == {state.bluePieces, state.yellowPieces, state.redPieces}
        ones == Cardinality({c \in {"blue", "yellow", "red"} : Pieces(state, c) = 1})
    IN  IF \E h \in heaps : h >= 2 THEN NimSum(state) # 0 ELSE ones % 2 = 0

\* C31: 4-3-2 revision: once the AI has been to move in a position that the
\* side to move wins under the last-piece-loses rule, the game can only end
\* with winner = ai.
C31_AIWinsFromMisereWinning ==
    (/\ ptState.gameOver
     /\ \E i \in 1..Len(ptHistory) :
           AIToMove(ptHistory[i]) /\ MisereWinning(ptHistory[i]))
        => ptState.winner = "ai"

\* A game the AI has won after it was to move in a winning position with a
\* heap of two or more, and later in one with two single pieces.
C31_Witness ==
    /\ ptState.gameOver /\ ptState.winner = "ai"
    /\ \E i \in 1..Len(ptHistory) :
          /\ AIToMove(ptHistory[i]) /\ MisereWinning(ptHistory[i])
          /\ \E c \in {"blue", "yellow", "red"} : Pieces(ptHistory[i], c) >= 2
    /\ \E i \in 1..Len(ptHistory) :
          /\ AIToMove(ptHistory[i]) /\ MisereWinning(ptHistory[i])
          /\ TotalPieces(ptHistory[i]) = 2

\* The heaps after color has lost k pieces.
HeapsLess(state, color, k) ==
    <<state.bluePieces - (IF color = "blue" THEN k ELSE 0),
      state.yellowPieces - (IF color = "yellow" THEN k ELSE 0),
      state.redPieces - (IF color = "red" THEN k ELSE 0)>>

\* C32: 7-6-2 game: an AI move from a position whose heap XOR is 0 takes 1 or
\* 2 pieces, never more than the heap holds, from one non-empty heap and
\* leaves the other heaps alone; every non-empty heap and either count (one
\* only, for a heap of one) can be the move.
C32_RandomFallbackTakesOneOrTwo ==
    [][(AIToMove(ptState) /\ NimSum(ptState) = 0 /\ lastOp' = "AIMove") =>
          /\ \E c \in {"blue", "yellow", "red"} :
                \E k \in 1..2 :
                    /\ k <= Pieces(ptState, c)
                    /\ Heaps(ptState') = HeapsLess(ptState, c, k)
                    /\ ptState'.lastAIMove = [color |-> c, count |-> k]
          /\ \A c \in {"blue", "yellow", "red"} :
                \A k \in 1..2 :
                    k <= Pieces(ptState, c) =>
                        \E outcome \in AIMoveOutcomes(ptState, ptHistory) :
                            Heaps(outcome[1]) = HeapsLess(ptState, c, k)]_vars

\* The AI has just taken two pieces from a position whose heap XOR was 0 and
\* in which another heap held a single piece.
C32_Witness ==
    /\ lastOp = "AIMove"
    /\ AIToMove(LastSnapshot) /\ NimSum(LastSnapshot) = 0
    /\ ptState.lastAIMove.count = 2
    /\ \E c \in {"blue", "yellow", "red"} : Pieces(LastSnapshot, c) = 1

(***************************************************************************)
(* Further properties of the Othello controller                            *)
(***************************************************************************)

\* The cells of the board that hold color.
CellsOf(board, color) == {pos \in AllCells : board[pos.row][pos.col] = color}

\* The side with strictly more pieces on the board, or draw.
MajoritySide(board) ==
    LET black == Cardinality(CellsOf(board, "black"))
        white == Cardinality(CellsOf(board, "white"))
    IN  IF black > white THEN "black" ELSE IF white > black THEN "white" ELSE "draw"

WinnerSettled == obState.gameOver /\ obState.winner = MajoritySide(obState.board)

\* C33: a winner that is not null is the side with more pieces on the current
\* board (draw for equal counts); once gameOver is true the winner field
\* eventually holds that side, and from then on the state keeps it.
C33_WinnerEventuallySettled ==
    /\ [](obState.winner # "null" => obState.winner = MajoritySide(obState.board))
    /\ (obState.gameOver ~> WinnerSettled)
    /\ [][WinnerSettled => (obState' = obState /\ obHistory' = obHistory)]_vars

\* The winner effect has just filled in the winner of a game that black's
\* placement ended.
C33_Witness ==
    /\ lastOp = "winnerEffect"
    /\ WinnerSettled
    /\ Len(obHistory) >= 2
    /\ obHistory[Len(obHistory) - 1].gameOver
    /\ obHistory[Len(obHistory) - 1].winner = "null"

\* A game the AI's placement ended, with the winner set in the same update.
C33_WitnessAIEnds ==
    /\ lastOp = "AIWhiteMove"
    /\ WinnerSettled

\* The move the AI callback gets from its search in the current state.
AISearchMove == obMinimax(obState.board, 4, NegInfinity, PosInfinity, TRUE).move

\* C34: while the game is not over, either white is to move and the depth-4
\* search returns a move that is legal for white, or black is to move and
\* validMoves is a non-empty list of legal black moves, each of which
\* handleBlackMove accepts.
C34_NeverStuck ==
    ~obState.gameOver =>
        \/ /\ obState.currentTurn = "white"
           /\ AISearchMove # NoMove
           /\ AISearchMove \in CaptureCells(obState.board, "white")
        \/ /\ obState.currentTurn = "black"
           /\ Len(obState.validMoves) > 0
           /\ \A i \in 1..Len(obState.validMoves) :
                 /\ obState.validMoves[i] \in CaptureCells(obState.board, "black")
                 /\ BlackMoveAccepted(obState, obState.validMoves[i].row,
                                      obState.validMoves[i].col)

\* White is to move again right after its own placement, because black
\* cannot move, and the search has a legal move for it.
C34_Witness ==
    /\ lastOp = "AIWhiteMove"
    /\ ~obState.gameOver /\ obState.currentTurn = "white"
    /\ CaptureCells(obState.board, "black") = {}
    /\ AISearchMove \in CaptureCells(obState.board, "white")

\* Black is to move again right after its own placement, because white
\* cannot move.
C34_WitnessBlackAgain ==
    /\ lastOp = "handleBlackMove"
    /\ ~obState.gameOver /\ obState.currentTurn = "black"
    /\ Len(obState.validMoves) > 0

\* C35: earlier revision: while the game is not over, either the AI is to
\* move and has a legal move, or the player is to move and validMoves holds
\* a cell that handlePlayerMove accepts.
C35_EarlierRevisionNeverStuck ==
    (EarlierOthelloRuns /\ ~obState.gameOver) =>
        \/ /\ obState.currentTurn = "ai"
           /\ CaptureCells(obState.board, CellOf("ai")) # {}
        \/ /\ obState.currentTurn = "player"
           /\ \E i \in 1..Len(obState.validMoves) :
                 PlayerMoveAcceptedP1(obState, obState.validMoves[i].row,
                                      obState.validMoves[i].col)

EmptyCells(board) == CellsOf(board, "empty")

\* C36: every step of handleBlackMove that is accepted and every step of the
\* AI callback turns exactly one empty cell into an occupied one and empties
\* no cell; the board never holds more than the 12 empty cells it starts
\* with, and a game that is not over has an empty cell left, so a play
\* without undo is over after at most 12 placements.
C36_PlacementsFillTheBoard ==
    /\ [][lastOp' \in {"handleBlackMove", "AIWhiteMove"} =>
             /\ EmptyCells(obState'.board) \subseteq EmptyCells(obState.board)
             /\ Cardinality(EmptyCells(obState.board) \ EmptyCells(obState'.board)) = 1]_vars
    /\ [](Cardinality(EmptyCells(obState.board)) <= 12)
    /\ [](~obState.gameOver => EmptyCells(obState.board) # {})
    /\ [](Len(obHistory) = 1 => Cardinality(EmptyCells(obState.board)) = 12)

\* The twelfth placement has filled the board and ended the game.
C36_Witness ==
    /\ lastOp \in {"handleBlackMove", "AIWhiteMove"}
    /\ EmptyCells(obState.board) = {}
    /\ obState.gameOver

\* A game that ended with empty cells left.
C36_WitnessEarlyEnd ==
    /\ obState.gameOver
    /\ EmptyCells(obState.board) # {}

(***************************************************************************)
(* Further properties of the Mod-M card game                               *)
(***************************************************************************)

\* The hand of the side whose turn it is.
HandToMove(state) ==
    IF state.currentTurn = "ai" THEN state.aiCards ELSE state.playerCards

\* C37: N = 5, M = 9 game: the plays alternate and the AI makes the first:
\* counting from 0, play i is the AI's for even i and the player's for odd
\* i; and while the game is not over the side to move holds a card.
C37_PlaysAlternate ==
    /\ Len(mmState.playedBy) = Len(mmState.playedCards)
    /\ \A i \in 0..(Len(mmState.playedBy) - 1) :
          mmState.playedBy[i + 1] = (IF i % 2 = 0 THEN "ai" ELSE "player")
    /\ ~mmState.gameOver => Len(HandToMove(mmState)) >= 1

\* An undo has restored a state in which four cards have been played and
\* the game goes on.
C37_Witness ==
    /\ lastOp = "handleUndo"
    /\ Len(mmState.playedBy) >= 4
    /\ ~mmState.gameOver

\* The player holds the last card of the game.
C37_WitnessLastCard ==
    /\ ~mmState.gameOver
    /\ Len(mmState.playedBy) = 9
    /\ mmState.currentTurn = "player"

\* The player has a strategy that wins the game from the state against
\* every card the AI effect may play.
RECURSIVE PlayerCanForceWin(_)
PlayerCanForceWin(state) ==
    IF state.gameOver THEN state.winner = "player"
    ELSE IF state.currentTurn = "ai"
    THEN \A card \in ChosenCards(state) :
            PlayerCanForceWin(PlayCardResult(state, card, "ai"))
    ELSE \E i \in 1..Len(state.playerCards) :
            PlayerCanForceWin(PlayCardResult(state, state.playerCards[i], "player"))

\* C38: N = 5, M = 9 game: before the first card is played (both sides
\* holding 1..5, the AI to make the first play) the player has a strategy that
\* ends the game with winner = player against every card the AI may play.
C38_HumanCanWin ==
    Len(mmState.playedCards) = 0 =>
        /\ mmState.playerCards = <<1, 2, 3, 4, 5>> /\ mmState.aiCards = <<1, 2, 3, 4, 5>>
        /\ PlayerCanForceWin(mmState)

\* A game the player has won by keeping to such a strategy: the player has
\* won and could force the win in every snapshot of the game.
C38_Witness ==
    /\ mmState.gameOver /\ mmState.winner = "player"
    /\ Len(mmHistory) >= 2
    /\ Len(mmHistory[1].playedCards) = 0 /\ mmHistory[1].currentTurn = "ai"
    /\ \A i \in 1..Len(mmHistory) : PlayerCanForceWin(mmHistory[i])

(***************************************************************************)
(* The AI effect's timer in the three controllers                          *)
(***************************************************************************)

\* The gameState of the controller that runs, and the side its AI plays.
CurrentGameState ==
    IF OthelloRuns THEN obState ELSE IF ModMRuns THEN mmState ELSE ptState

CurrentHistory ==
    IF OthelloRuns THEN obHistory ELSE IF ModMRuns THEN mmHistory ELSE ptHistory

AISide == IF OthelloRuns THEN "white" ELSE "ai"

\* The step is a timer callback of the AI effect.
AITimerFires == lastOp' \in {"AIMove", "AIPlay", "AIWhiteMove"}

\* What the timer callback makes of <<gameState, history>> when it works on
\* the current gameState.
AICallbackOutcomes(state, history) ==
    IF OthelloRuns
    THEN {<<WhiteMoveResult(state), Append(history, WhiteMoveResult(state))>>}
    ELSE IF ModMRuns
    THEN {<<PlayCardResult(state, card, "ai"), Append(history, state)>> :
            card \in ChosenCards(state)}
    ELSE AIMoveOutcomes(state, history)

\* C39: in the three controllers a pending timer of the AI effect always
\* closed over the current gameState (a state change cancels the timer of the
\* state it replaces); a timer callback runs with the AI to move in a running
\* game, its result is computed from and applied to the current state, and
\* after it no timer is pending but the one of the state it has set.
C39_TimerNeverStale ==
    /\ [](aiTimers \subseteq {CurrentGameState})
    /\ [][AITimerFires =>
            /\ aiTimers = {CurrentGameState}
            /\ AIEffectRuns(CurrentGameState, AISide)
            /\ <<CurrentGameState', CurrentHistory'>>
                   \in AICallbackOutcomes(CurrentGameState, CurrentHistory)
            /\ aiTimers' = SetTimeout({}, CurrentGameState', AISide)]_vars

\* Mod-M: undo was pressed during the AI's delay (undo goes back two plays,
\* so the restored state has the side to move that the replaced one had); the
\* timer of the restored state is the only one pending, and undo is possible
\* once more.
C39_Witness ==
    /\ ModMRuns /\ lastOp = "handleUndo"
    /\ AIEffectRuns(mmState, "ai")
    /\ aiTimers = {mmState}
    /\ Len(mmHistory) >= 2

\* Othello: undo has restored a state with white to move, whose timer is the
\* only one pending.
C39_WitnessOthelloUndo ==
    /\ OthelloRuns /\ lastOp = "obHandleUndo"
    /\ AIEffectRuns(obState, "white")
    /\ aiTimers = {obState}

\* Othello: the AI has moved and black has to pass: a timer for the AI's
\* next turn is pending.
C39_WitnessAIAgain ==
    /\ OthelloRuns /\ lastOp = "AIWhiteMove"
    /\ AIEffectRuns(obState, "white")
    /\ aiTimers = {obState}

\* Piece-taking: the AI has moved and no timer is pending.
C39_WitnessPieceTaking ==
    /\ ~OthelloRuns /\ ~ModMRuns /\ lastOp = "AIMove"
    /\ ~ptState.gameOver
    /\ aiTimers = {}
====
